---- MODULE Spec2Model ----
(***************************************************************************)
(* Model of the tileset-rule loader and the autotile resolver of           *)
(* src/src/tile_xml.rs, and of the texture-atlas decoder and registry of   *)
(* src/src/data/celeste_atlas.rs and src/src/celeste_atlas.rs, of the map   *)
(* editor state (src/src/app/mod.rs, src/src/map, src/src/ui) and of the   *)
(* XNB texture reader (src/src/xnb_reader.rs).                             *)
(*                                                                         *)
(* Characters are one-character strings, a Rust String / &str is a         *)
(* sequence of characters, Option<T> is the record None or Some(v), a      *)
(* HashMap is a function whose DOMAIN is its key set.  Grid and            *)
(* neighbourhood indices are 0-based as in the source; the TLA+ sequences  *)
(* that hold them are 1-based, hence the "+ 1" at every access.            *)
(***************************************************************************)
EXTENDS Integers, Sequences, FiniteSets, TLC

VARIABLES
    files,          \* path -> the XML event stream quick_xml reads from that file
    TILESET_RULES,  \* the process-wide OnceCell<HashMap<char, Tileset>>
    tilesets,       \* the rule map the resolver was last handed
    rules_path,     \* the path the last load / get was asked for (None before)
    solids,         \* the level's tile grid: Vec<Vec<char>>, rows may be ragged
    call,           \* the last autotile_tile_coord call and what it returned
    fstat,          \* path -> "missing", "unreadable" (exists, open fails) or "readable"
    TILESET_ID_PATH_MAP_FG,  \* OnceCell<HashMap<char, String>>
    TILESET_ID_PATH_MAP_BG,  \* OnceCell<HashMap<char, String>>
    last_get,       \* the last get_tilesets_with_rules call: path, file state then, result
    celeste_dir,    \* CelesteAssets::celeste_dir: Option<PathBuf>
    disk,           \* install directory -> its atlas .meta and .data files (bytes)
    layout,         \* what the Gameplay.meta of "d1" was written from (None: not recorded)
    atlas_manager,  \* CelesteAssets::atlas_manager: atlases and texture_id_to_atlas
    GLOBAL_SPRITE_MAP,  \* path -> (atlas name, Sprite), process-wide
    next_texture,   \* the next TextureId egui's texture manager hands out
    atlas_ret,      \* the last load_atlas call and what it returned
    history,        \* the successful load_atlas calls so far: (name, sprites), oldest first
    texture_cache,  \* the keys of CelesteAssets::texture_cache and ::textures
    saved_path,     \* the install path save_celeste_path last wrote to the config file
    loaded,         \* the last load_data_file call and what it returned
    buffer,         \* the RGBA buffer the run-length encoder was handed (None: none)
    editor,         \* the CelesteMapEditor
    world,          \* the .bin map files on disk (path -> tree), and the path last loaded
    op,             \* the last editor operation and what the editor was before it
    xnb_ret         \* the last read_texture call and what it returned

tileVars == <<files, TILESET_RULES, tilesets, rules_path, solids, call,
              fstat, TILESET_ID_PATH_MAP_FG, TILESET_ID_PATH_MAP_BG, last_get>>

installVars == <<celeste_dir, disk, layout>>

registryVars == <<atlas_manager, GLOBAL_SPRITE_MAP, next_texture, atlas_ret, history,
                  texture_cache, saved_path>>

atlasVars == <<installVars, registryVars, loaded, buffer>>

editorVars == <<editor, world, op, xnb_ret>>

vars == <<tileVars, atlasVars, editorVars>>

----------------------------------------------------------------------------
(* Bounds of the model *)

MaxRows == 2
MaxCols == 3
MaxRules == 3

----------------------------------------------------------------------------
(* Option, HashMap and String helpers *)

None == [some |-> FALSE]
Some(v) == [some |-> TRUE, val |-> v]

EmptyMap == <<>>

MapPut(m, k, v) == [kk \in (DOMAIN m) \cup {k} |-> IF kk = k THEN v ELSE m[kk]]

MapGetOr(m, k, d) == IF k \in DOMAIN m THEN m[k] ELSE d

\* str::contains(char)
Contains(s, c) == \E i \in 1..Len(s) : s[i] = c

\* the sentinel get_neighborhood writes for a cell outside the grid ('\0')
NUL == "NUL"

RECURSIVE SplitFrom(_, _, _, _)
SplitFrom(s, d, i, cur) ==
    IF i > Len(s) THEN <<cur>>
    ELSE IF s[i] = d THEN <<cur>> \o SplitFrom(s, d, i + 1, <<>>)
    ELSE SplitFrom(s, d, i + 1, Append(cur, s[i]))

\* str::split(char): the pieces between the delimiters, empty pieces included
Split(s, d) == SplitFrom(s, d, 1, <<>>)

Center == <<"c", "e", "n", "t", "e", "r">>
Padding == <<"p", "a", "d", "d", "i", "n", "g">>

----------------------------------------------------------------------------
(* src/src/ui/render.rs: the editor's solidity predicate *)

is_solid_tile(c) == c \in {"1", "2", "3", "4"}

----------------------------------------------------------------------------
(* src/src/tile_xml.rs: neighbourhood extraction and mask matching *)

\* one cell of get_neighborhood: row dy+1, column dx+1 of the window
NeighborCell_AirOutside(grid, x, y, dx, dy) ==
    LET nx == x + dx
        ny == y + dy
    IN  IF nx >= 0 /\ ny >= 0 /\ ny < Len(grid) /\ nx < Len(grid[ny + 1])
        THEN grid[ny + 1][nx + 1]
        ELSE "0"

NeighborCell(grid, x, y, dx, dy) ==
    LET nx == x + dx
        ny == y + dy
        h  == Len(grid)
    IN  IF nx >= 0 /\ ny >= 0 /\ ny < h
        THEN IF nx < Len(grid[ny + 1]) /\ nx >= 0
             THEN grid[ny + 1][nx + 1]
             ELSE NUL
        ELSE NUL

get_neighborhood(grid, x, y) ==
    [row \in 1..3 |-> [col \in 1..3 |-> NeighborCell(grid, x, y, col - 2, row - 2)]]

\* the "solid and not ignored" test both explicit mask arms share
SolidNotIgnored_NoIgnores(tile, ignores) == is_solid_tile(tile)

SolidNotIgnored(tile, ignores) ==
    is_solid_tile(tile) /\ (IF ignores.some THEN ~Contains(ignores.val, tile) ELSE TRUE)

\* one position of an explicit mask: FALSE where the source returns false
MaskCharOk(m, tile, ignores) ==
    LET oob == (tile = NUL)
    IN  CASE m = "0" -> ~(SolidNotIgnored(tile, ignores) \/ oob)
          [] m = "1" -> ~(~SolidNotIgnored(tile, ignores) /\ ~oob)
          [] OTHER   -> TRUE

mask_matches(n, mask, ignores) ==
    IF mask = Center
    THEN \A row \in 1..3 : \A col \in 1..3 :
            n[row][col] = NUL \/ is_solid_tile(n[row][col])
    ELSE IF mask = Padding
    THEN /\ (n[2][2] = NUL \/ is_solid_tile(n[2][2]))
         /\ \A row \in 1..3 : \A col \in 1..3 :
                (row = 2 /\ col = 2) \/ n[row][col] = NUL \/ is_solid_tile(n[row][col])
    ELSE LET mask_rows == Split(mask, "-")
         IN  /\ Len(mask_rows) = 3
             /\ \A y \in 1..3 :
                    /\ Len(mask_rows[y]) = 3
                    /\ \A x \in 1..3 : MaskCharOk(mask_rows[y][x], n[y][x], ignores)

\* one offset of has_orthogonal_air: TRUE where the loop returns true
OrthogonalAirAt(grid, x, y, dx, dy) ==
    LET nx == x + dx
        ny == y + dy
        h  == Len(grid)
        w  == IF h > 0 THEN Len(grid[1]) ELSE 0
    IN  /\ ~(nx < 0 \/ ny < 0 \/ ny >= h \/ nx >= w)
        /\ ~(ny >= Len(grid))
        /\ ~(nx >= Len(grid[ny + 1]))
        /\ ~is_solid_tile(grid[ny + 1][nx + 1])

has_orthogonal_air(grid, x, y) ==
    \E off \in {<<-2, 0>>, <<2, 0>>, <<0, -2>>, <<0, 2>>} :
        OrthogonalAirAt(grid, x, y, off[1], off[2])

----------------------------------------------------------------------------
(* src/src/tile_xml.rs: autotile_tile_coord *)

\* the deterministic candidate index
TileIndex_Swapped(x, y, len) == (x * 17 + y * 31) % len

TileIndex(x, y, len) == (x * 31 + y * 17) % len

\* the rule a `for rule in &tileset.rules` loop stops at: the first hit
LastHit(S) == CHOOSE i \in S : \A j \in S : i >= j

FirstHit(S) == CHOOSE i \in S : \A j \in S : i <= j

\* step 1: the explicit rules that match and list a candidate
ExplicitHits(ts, n) ==
    {i \in 1..Len(ts.rules) :
        /\ ts.rules[i].mask # Padding /\ ts.rules[i].mask # Center
        /\ mask_matches(n, ts.rules[i].mask, ts.ignores)
        /\ ts.rules[i].tiles # <<>>}

\* step 2: the "padding" rules that match with air two tiles away
PaddingHits(ts, n, grid, x, y) ==
    {i \in 1..Len(ts.rules) :
        /\ ts.rules[i].mask = Padding
        /\ mask_matches(n, ts.rules[i].mask, ts.ignores)
        /\ has_orthogonal_air(grid, x, y)}

\* step 3: the "center" rules that match
CenterHits(ts, n) ==
    {i \in 1..Len(ts.rules) :
        ts.rules[i].mask = Center /\ mask_matches(n, ts.rules[i].mask, ts.ignores)}

Pick(rule, x, y) == rule.tiles[TileIndex(x, y, Len(rule.tiles)) + 1]

\* What the call returns (coord) and, as a record of the path taken through
\* the function, the step that returned (via) and the index of its rule.
AutotileFrom_PaddingFirst(ts, grid, x, y) ==
    LET n  == get_neighborhood(grid, x, y)
        ex == ExplicitHits(ts, n)
        pd == PaddingHits(ts, n, grid, x, y)
        ce == CenterHits(ts, n)
    IN  IF pd # {} /\ ts.rules[FirstHit(pd)].tiles # <<>>
        THEN [coord |-> Some(Pick(ts.rules[FirstHit(pd)], x, y)), via |-> "padding", rule |-> FirstHit(pd)]
        ELSE IF ex # {}
        THEN [coord |-> Some(Pick(ts.rules[FirstHit(ex)], x, y)), via |-> "explicit", rule |-> FirstHit(ex)]
        ELSE IF ce # {} /\ ts.rules[FirstHit(ce)].tiles # <<>>
        THEN [coord |-> Some(Pick(ts.rules[FirstHit(ce)], x, y)), via |-> "center", rule |-> FirstHit(ce)]
        ELSE [coord |-> Some(<<0, 0>>), via |-> "default", rule |-> 0]

AutotileFrom(ts, grid, x, y) ==
    LET n  == get_neighborhood(grid, x, y)
        ex == ExplicitHits(ts, n)
        pd == PaddingHits(ts, n, grid, x, y)
        ce == CenterHits(ts, n)
    IN  IF ex # {}
        THEN [coord |-> Some(Pick(ts.rules[FirstHit(ex)], x, y)), via |-> "explicit", rule |-> FirstHit(ex)]
        ELSE IF pd # {} /\ ts.rules[FirstHit(pd)].tiles # <<>>
        THEN [coord |-> Some(Pick(ts.rules[FirstHit(pd)], x, y)), via |-> "padding", rule |-> FirstHit(pd)]
        ELSE IF ce # {} /\ ts.rules[FirstHit(ce)].tiles # <<>>
        THEN [coord |-> Some(Pick(ts.rules[FirstHit(ce)], x, y)), via |-> "center", rule |-> FirstHit(ce)]
        ELSE [coord |-> Some(<<0, 0>>), via |-> "default", rule |-> 0]

autotile_tile_coord_DefaultForUnknown(tile_id, grid, x, y, map) ==
    IF tile_id \notin DOMAIN map
    THEN [coord |-> Some(<<0, 0>>), via |-> "default", rule |-> 0]
    ELSE AutotileFrom(map[tile_id], grid, x, y)

autotile_tile_coord(tile_id, grid, x, y, map) ==
    IF tile_id \notin DOMAIN map
    THEN [coord |-> None, via |-> "unknown", rule |-> 0]
    ELSE AutotileFrom(map[tile_id], grid, x, y)

----------------------------------------------------------------------------
(* src/src/tile_xml.rs: load_tilesets_with_rules                           *)
(*                                                                         *)
(* A file is the stream of events quick_xml yields for it:                 *)
(*   [kind |-> "Tileset", empty, id, path, copy, ignores]  Start or Empty  *)
(*   [kind |-> "set", mask, tiles]                         Start or Empty  *)
(*   [kind |-> "EndTileset"]                               End             *)
(*   [kind |-> "Err"]                                      a read error    *)
(* and the end of the sequence is Eof.  The tiles attribute is the list of *)
(* its ';'-separated pairs, each pair the list of its ','-separated        *)
(* fields, each field the result of trim().parse::<u32>().                 *)
(***************************************************************************)

ParseOk(v) == [ok |-> TRUE, val |-> v]
ParseErr == [ok |-> FALSE, val |-> 0]

RECURSIVE ParseTiles(_)
ParseTiles(pairs) ==
    IF pairs = <<>> THEN <<>>
    ELSE LET coords == Head(pairs)
             rest   == ParseTiles(Tail(pairs))
         IN  IF Len(coords) = 2 /\ coords[1].ok /\ coords[2].ok
             THEN <<(<<coords[1].val, coords[2].val>>)>> \o rest
             ELSE rest

\* the parser's locals before the first event
ParseStart ==
    [rules_by_id |-> EmptyMap, ignores_by_id |-> EmptyMap, path_by_id |-> EmptyMap,
     copy_map |-> EmptyMap, current_id |-> None]

\* a <Tileset ...> element, Start or Empty
OnTileset(st, e) ==
    IF ~e.id.some THEN st
    ELSE LET id_val == e.id.val
         IN  [st EXCEPT
                !.current_id = Some(id_val),
                !.path_by_id = IF e.path.some THEN MapPut(@, id_val, e.path.val) ELSE @,
                !.copy_map = IF e.copy.some THEN MapPut(@, id_val, e.copy.val) ELSE @,
                !.ignores_by_id = MapPut(@, id_val, e.ignores),
                !.rules_by_id = MapPut(@, id_val, MapGetOr(@, id_val, <<>>))]

\* a <set ...> element
OnSet(st, e) ==
    IF st.current_id.some /\ e.mask.some
    THEN LET id    == st.current_id.val
             tiles == IF e.tiles.some THEN ParseTiles(e.tiles.val) ELSE <<>>
         IN  [st EXCEPT !.rules_by_id =
                MapPut(@, id, Append(MapGetOr(@, id, <<>>), [mask |-> e.mask.val, tiles |-> tiles]))]
    ELSE st

\* the event loop: it ends at Eof (the end of the stream) or at a read error
RECURSIVE ParseEvents(_, _, _)
ParseEvents(events, i, st) ==
    IF i > Len(events) THEN st
    ELSE LET e == events[i]
         IN  CASE e.kind = "Tileset"    -> ParseEvents(events, i + 1, OnTileset(st, e))
               [] e.kind = "set"        -> ParseEvents(events, i + 1, OnSet(st, e))
               [] e.kind = "EndTileset" -> ParseEvents(events, i + 1, [st EXCEPT !.current_id = None])
               [] e.kind = "Err"        -> st
               [] OTHER                 -> ParseEvents(events, i + 1, st)

\* "Inherit rules from copy=...": the loop over copy_map, visited in the
\* order `order` (a HashMap's iteration order is unspecified)
InheritRules_Skipped(rules_by_id, copy_map, order) == rules_by_id

RECURSIVE InheritRules(_, _, _)
InheritRules(rules_by_id, copy_map, order) ==
    IF order = <<>> THEN rules_by_id
    ELSE LET id         == Head(order)
             copy_id    == copy_map[id]
             base_rules == MapGetOr(rules_by_id, copy_id, <<>>)
         IN  InheritRules(MapPut(rules_by_id, id, MapGetOr(rules_by_id, id, <<>>) \o base_rules),
                          copy_map, Tail(order))

\* "Build Tileset structs": one Tileset per id that declared a path
BuildTilesets(st, rules_by_id) ==
    [id \in DOMAIN st.path_by_id |->
        [id      |-> id,
         path    |-> st.path_by_id[id],
         ignores |-> IF id \in DOMAIN st.ignores_by_id THEN st.ignores_by_id[id] ELSE None,
         rules   |-> MapGetOr(rules_by_id, id, <<>>)]]

\* the orders in which a HashMap with key set S can be iterated
Orders(S) == {o \in [1..Cardinality(S) -> S] : \A i, j \in 1..Cardinality(S) : o[i] = o[j] => i = j}

load_tilesets_with_rules(events, order) ==
    LET st == ParseEvents(events, 1, ParseStart)
    IN  BuildTilesets(st, InheritRules(st.rules_by_id, st.copy_map, order))

\* the copy_map the parse of a file leaves, whose iteration order the load depends on
CopyKeys(events) == DOMAIN ParseEvents(events, 1, ParseStart).copy_map

----------------------------------------------------------------------------
(* src/src/tile_xml.rs: get_tilesets_with_rules, OnceCell::get_or_init *)

\* Path::exists and File::open on a file in state stat
Exists(stat) == stat # "missing"
OpenOk(stat) == stat = "readable"

\* load_tilesets_with_rules from its first line: the empty map when the file
\* cannot be opened, else the parse of its events
load_tilesets_with_rules_from(stat, events, order) ==
    IF ~OpenOk(stat) THEN EmptyMap ELSE load_tilesets_with_rules(events, order)

\* the cell after get_or_init: filled by the closure only when it was empty
get_or_init(cell, stat, events, order) ==
    IF cell.some THEN cell ELSE Some(load_tilesets_with_rules_from(stat, events, order))

get_tilesets_with_rules(cell, stat, events, order) ==
    get_or_init(cell, stat, events, order).val

----------------------------------------------------------------------------
(* src/src/tile_xml.rs: load_tileset_id_path_map and the two path-map cells *)

\* a <Tileset ...> element seen by load_tileset_id_path_map
OnPathTileset(st, e) ==
    [st EXCEPT
        !.path_map = IF e.id.some /\ e.path.some THEN MapPut(@, e.id.val, e.path.val) ELSE @,
        !.copy_map = IF e.id.some /\ e.copy.some THEN MapPut(@, e.id.val, e.copy.val) ELSE @]

RECURSIVE ParsePathEvents(_, _, _)
ParsePathEvents(events, i, st) ==
    IF i > Len(events) THEN st
    ELSE LET e == events[i]
         IN  CASE e.kind = "Tileset" -> ParsePathEvents(events, i + 1, OnPathTileset(st, e))
               [] e.kind = "Err"     -> st
               [] OTHER              -> ParsePathEvents(events, i + 1, st)

\* "Resolve copy chains": the loop over copy_map, visited in the order `order`
RECURSIVE ResolveCopies(_, _, _)
ResolveCopies(path_map, copy_map, order) ==
    IF order = <<>> THEN path_map
    ELSE LET id      == Head(order)
             copy_id == copy_map[id]
         IN  ResolveCopies(
                IF id \notin DOMAIN path_map /\ copy_id \in DOMAIN path_map
                THEN MapPut(path_map, id, path_map[copy_id])
                ELSE path_map,
                copy_map, Tail(order))

PathCopyKeys(events) ==
    DOMAIN ParsePathEvents(events, 1, [path_map |-> EmptyMap, copy_map |-> EmptyMap]).copy_map

load_tileset_id_path_map(stat, events, order) ==
    IF ~OpenOk(stat) THEN EmptyMap
    ELSE LET st == ParsePathEvents(events, 1, [path_map |-> EmptyMap, copy_map |-> EmptyMap])
         IN  ResolveCopies(st.path_map, st.copy_map, order)

\* one half of ensure_tileset_id_path_map_loaded_from_celeste: the cell after it
EnsureCell(cell, dir, stat, events, order) ==
    IF cell.some THEN cell
    ELSE IF ~dir.some THEN cell
    ELSE IF Exists(stat) THEN Some(load_tileset_id_path_map(stat, events, order))
    ELSE cell

----------------------------------------------------------------------------
(* The inputs the specifications draw from *)

Chars == {"0", "1", "2"}
TileIds == {"1", "2", "3"}
Paths == {"fg", "bg"}

SeqsUpTo(S, n) == UNION {[1..k -> S] : k \in 0..n}

\* every ragged grid over the characters C: at most MaxRows rows of at most MaxCols cells
GridsOver(C) == SeqsUpTo(SeqsUpTo(C, MaxCols), MaxRows)

Xs == 0..(MaxCols - 1)
Ys == 0..(MaxRows - 1)

Rows3(a, b, c) == a \o <<"-">> \o b \o <<"-">> \o c

MaskAll == Rows3(<<"1", "1", "1">>, <<"1", "1", "1">>, <<"1", "1", "1">>)
MaskPlus == Rows3(<<"x", "1", "x">>, <<"1", "1", "1">>, <<"x", "1", "x">>)
MaskLeftAir == Rows3(<<"x", "x", "x">>, <<"0", "1", "1">>, <<"x", "x", "x">>)

\* the tiles attribute "x1,y1;x2,y2;..." of well-formed pairs
TilesAttr(coords) ==
    Some([i \in 1..Len(coords) |-> <<ParseOk(coords[i][1]), ParseOk(coords[i][2])>>])

SetEv(mask, tiles) == [kind |-> "set", mask |-> Some(mask), tiles |-> tiles]

SetAll == SetEv(MaskAll, TilesAttr(<<(<<1, 1>>), (<<2, 1>>)>>))
SetPlus == SetEv(MaskPlus, TilesAttr(<<(<<3, 1>>)>>))
\* a <set> whose tiles attribute is missing: a rule with no candidate
SetBare == SetEv(MaskAll, None)
SetPadding == SetEv(Padding, TilesAttr(<<(<<5, 1>>), (<<5, 2>>), (<<5, 3>>)>>))
SetCenter == SetEv(Center, TilesAttr(<<(<<6, 1>>)>>))

SetLeftAir == SetEv(MaskLeftAir, TilesAttr(<<(<<4, 1>>)>>))

SetPalette == {SetAll, SetPlus, SetBare, SetPadding, SetCenter}

\* the <set> lists of a tileset: up to MaxRules different elements, any order
SetLists == {l \in SeqsUpTo(SetPalette, MaxRules) : \A i, j \in 1..Len(l) : l[i] = l[j] => i = j}

IgnoresAttrs == {None, Some(<<"2">>)}

\* <Tileset id path copy ignores> sets </Tileset>
TilesetElement(id, path, copy, ignores, sets) ==
    <<[kind |-> "Tileset", id |-> Some(id), path |-> path, copy |-> copy, ignores |-> ignores]>>
    \o sets \o <<[kind |-> "EndTileset"]>>

\* a rule file declaring the one tile-type '1'
OneTileset(ignores, sets) == TilesetElement("1", Some("dirt"), None, ignores, sets)

NoCall == [made |-> FALSE]

----------------------------------------------------------------------------
(* The operations *)

\* autotile_tile_coord(tile_id, &solids, x, y, tilesets, &is_solid_tile) for
\* a cell of the grid, once per rule map handed to the resolver
Autotile(tile_id, x, y) ==
    /\ call = NoCall
    /\ y < Len(solids) /\ x < Len(solids[y + 1])
    /\ call' = [made |-> TRUE, tile_id |-> tile_id, x |-> x, y |-> y,
                n |-> get_neighborhood(solids, x, y),
                ret |-> autotile_tile_coord(tile_id, solids, x, y, tilesets)]
    /\ UNCHANGED <<files, TILESET_RULES, tilesets, rules_path, solids>>
    /\ UNCHANGED <<fstat, TILESET_ID_PATH_MAP_FG, TILESET_ID_PATH_MAP_BG, last_get>>
    /\ UNCHANGED <<atlasVars, editorVars>>

\* tilesets = load_tilesets_with_rules(path)
Load(p) ==
    \E order \in Orders(CopyKeys(files[p])) :
        /\ tilesets' = load_tilesets_with_rules_from(fstat[p], files[p], order)
        /\ rules_path' = Some(p)
        /\ call' = NoCall
        /\ UNCHANGED <<files, TILESET_RULES, solids>>
        /\ UNCHANGED <<fstat, TILESET_ID_PATH_MAP_FG, TILESET_ID_PATH_MAP_BG, last_get>>
        /\ UNCHANGED <<atlasVars, editorVars>>

\* tilesets = get_tilesets_with_rules(path)
GetTilesets(p) ==
    \E order \in Orders(CopyKeys(files[p])) :
        /\ TILESET_RULES' = get_or_init(TILESET_RULES, fstat[p], files[p], order)
        /\ tilesets' = get_tilesets_with_rules(TILESET_RULES, fstat[p], files[p], order)
        /\ rules_path' = Some(p)
        /\ call' = NoCall
        /\ last_get' = [made |-> TRUE, path |-> p, stat |-> fstat[p], ret |-> tilesets']
        /\ UNCHANGED <<files, solids>>
        /\ UNCHANGED <<fstat, TILESET_ID_PATH_MAP_FG, TILESET_ID_PATH_MAP_BG>>
        /\ UNCHANGED <<atlasVars, editorVars>>

\* ensure_tileset_id_path_map_loaded_from_celeste(editor): the foreground
\* cell, then the background cell
EnsurePathMaps ==
    \E ofg \in Orders(PathCopyKeys(files["fg"])), obg \in Orders(PathCopyKeys(files["bg"])) :
        /\ TILESET_ID_PATH_MAP_FG' =
              EnsureCell(TILESET_ID_PATH_MAP_FG, celeste_dir, fstat["fg"], files["fg"], ofg)
        /\ TILESET_ID_PATH_MAP_BG' =
              EnsureCell(TILESET_ID_PATH_MAP_BG, celeste_dir, fstat["bg"], files["bg"], obg)
        /\ UNCHANGED <<files, TILESET_RULES, tilesets, rules_path, solids, call, fstat, last_get>>
        /\ UNCHANGED <<atlasVars, editorVars>>

\* the environment: a file that could not be opened becomes readable
FileFixed(p) ==
    /\ fstat[p] # "readable"
    /\ fstat' = [fstat EXCEPT ![p] = "readable"]
    /\ UNCHANGED <<files, TILESET_RULES, tilesets, rules_path, solids, call>>
    /\ UNCHANGED <<TILESET_ID_PATH_MAP_FG, TILESET_ID_PATH_MAP_BG, last_get>>
    /\ UNCHANGED <<atlasVars, editorVars>>

\* the install directories the editor can be pointed at
Dirs == {"d1", "d2"}

\* AtlasManager::new()
AtlasManager_new == [atlases |-> EmptyMap, texture_id_to_atlas |-> EmptyMap]

\* CelesteMapEditor::default(), the fields the model follows.  camera_pos
\* is in screen pixels; zoom_level is a whole number here
CelesteMapEditor_default ==
    [map_data |-> None, current_level_index |-> 0, camera_pos |-> <<0, 0>>,
     bin_path |-> None, temp_json_path |-> None, show_open_dialog |-> FALSE,
     error_message |-> None, level_names |-> <<>>, zoom_level |-> 1,
     show_all_rooms |-> TRUE, cached_rooms |-> <<>>, static_shapes |-> None,
     static_dirty |-> TRUE]

\* no map file anywhere; origin is the path the editor's tree was last
\* loaded from or saved as (bookkeeping of the model, not a field)
NoWorld == [bins |-> EmptyMap, origin |-> None]

\* the editor before anything was opened
EditorNew ==
    /\ editor = CelesteMapEditor_default
    /\ op = NoCall

EditorIdle ==
    /\ EditorNew
    /\ world = NoWorld
    /\ xnb_ret = NoCall

\* a directory without atlas files
NoAtlasFiles == [meta |-> EmptyMap, data |-> EmptyMap]

\* the atlas registry before anything was loaded
RegistryNew ==
    /\ atlas_manager = AtlasManager_new
    /\ GLOBAL_SPRITE_MAP = EmptyMap
    /\ next_texture = 0
    /\ atlas_ret = NoCall
    /\ history = <<>>
    /\ texture_cache = {}
    /\ saved_path = None

\* the same, on a disk without atlases
AtlasIdle_NoBuffer ==
    /\ disk = [d \in Dirs |-> NoAtlasFiles]
    /\ layout = None
    /\ RegistryNew
    /\ loaded = NoCall
    /\ EditorIdle

AtlasIdle == AtlasIdle_NoBuffer /\ buffer = None

\* no install directory chosen, nothing loaded
AtlasUnused ==
    /\ celeste_dir = None
    /\ disk = [d \in Dirs |-> NoAtlasFiles]
    /\ layout = None
    /\ RegistryNew
    /\ loaded = NoCall
    /\ buffer = None

\* every rule file can be opened; the path-map cells are empty
FilesReadable == fstat = [p \in Paths |-> "readable"]

CellsEmpty ==
    /\ TILESET_ID_PATH_MAP_FG = None
    /\ TILESET_ID_PATH_MAP_BG = None
    /\ last_get = NoCall

\* the state once the resolver holds the rule map of the foreground file f
Loaded(f) ==
    /\ files = [p \in Paths |-> IF p = "fg" THEN f ELSE <<>>]
    /\ TILESET_RULES = None
    /\ tilesets = load_tilesets_with_rules(f, <<>>)
    /\ rules_path = Some("fg")
    /\ call = NoCall
    /\ FilesReadable /\ CellsEmpty
    /\ celeste_dir = Some("d1") /\ AtlasIdle

----------------------------------------------------------------------------
(* Spec: the resolver with every rule list, on every grid of air and dirt *)

Init ==
    /\ \E sets \in SetLists : Loaded(OneTileset(None, sets))
    /\ solids \in GridsOver({"0", "1"})

Next == \E tile_id \in {"1", "2"}, x \in Xs, y \in Ys : Autotile(tile_id, x, y)

Spec == Init /\ [][Next]_vars

----------------------------------------------------------------------------
(* SpecGrid: the resolver with one explicit rule, with and without an      *)
(* ignores attribute, on every grid of air and two solid tile-types        *)

InitGrid ==
    /\ \E ig \in IgnoresAttrs, set \in {SetAll, SetLeftAir} : Loaded(OneTileset(ig, <<set>>))
    /\ solids \in GridsOver(Chars)

NextGrid == \E x \in Xs, y \in Ys : Autotile("1", x, y)

SpecGrid == InitGrid /\ [][NextGrid]_vars

----------------------------------------------------------------------------
(* SpecLoad: loading rule files in which three tile-types copy one another *)

CopyAttrs(id) == {None} \cup {Some(other) : other \in TileIds \ {id}}

LoadFiles ==
    {TilesetElement("1", Some("dirt"), c1, i1, s1)
        \o TilesetElement("2", p2, c2, None, s2)
        \o TilesetElement("3", Some("snow"), c3, i3, s3) :
        <<c1, i1, s1>> \in CopyAttrs("1") \X IgnoresAttrs \X {<<>>, <<SetAll>>},
        <<p2, c2, s2>> \in {None, Some("stone")} \X CopyAttrs("2") \X {<<>>, <<SetPlus>>},
        <<c3, i3, s3>> \in CopyAttrs("3") \X IgnoresAttrs \X {<<>>, <<SetCenter>>}}

LoadGrids == {<<(<<"1", "2">>)>>, <<(<<"1", "1">>), (<<"1">>)>>}

\* nothing loaded yet: the resolver holds an empty rule map
NotLoaded_Tiles ==
    /\ TILESET_RULES = None
    /\ tilesets = EmptyMap
    /\ rules_path = None
    /\ call = NoCall
    /\ CellsEmpty

NotLoaded == NotLoaded_Tiles /\ AtlasIdle

InitLoad ==
    /\ files \in {[p \in Paths |-> IF p = "fg" THEN f ELSE <<>>] : f \in LoadFiles}
    /\ solids \in LoadGrids
    /\ NotLoaded
    /\ FilesReadable /\ celeste_dir = Some("d1")

NextLoad ==
    \/ \E p \in Paths : Load(p)
    \/ \E tile_id \in TileIds, x \in Xs, y \in Ys : Autotile(tile_id, x, y)

SpecLoad == InitLoad /\ [][NextLoad]_vars

----------------------------------------------------------------------------
(* SpecCache: the cached rule map, asked for the foreground and the        *)
(* background rule file                                                    *)

CacheFiles == {OneTileset(None, sets) : sets \in SeqsUpTo({SetAll, SetCenter}, 1)}
                \cup {OneTileset(None, <<SetAll, SetCenter>>), <<>>}

InitCache ==
    /\ files \in [Paths -> CacheFiles]
    /\ solids \in LoadGrids
    /\ NotLoaded
    /\ FilesReadable /\ celeste_dir = Some("d1")

NextCache ==
    \/ \E p \in Paths : GetTilesets(p)
    \/ \E x \in Xs, y \in Ys : Autotile("1", x, y)

SpecCache == InitCache /\ [][NextCache]_vars

----------------------------------------------------------------------------
(* What the claims speak of, read off the grid and the rule list directly *)

Range(s) == {s[i] : i \in DOMAIN s}

Registered == call.made /\ call.tile_id \in DOMAIN tilesets

CallRules == tilesets[call.tile_id].rules
CallIgnores == tilesets[call.tile_id].ignores

\* the grid cell at column gx, row gy exists (bounds taken per row)
InGrid(gx, gy) ==
    /\ gy >= 0 /\ gy < Len(solids)
    /\ gx >= 0 /\ gx < Len(solids[gy + 1])

CellAt(gx, gy) == solids[gy + 1][gx + 1]

SolidOrOutside(gx, gy) == InGrid(gx, gy) => is_solid_tile(CellAt(gx, gy))

Ignored(c) == CallIgnores.some /\ Contains(CallIgnores.val, c)

\* the centre and its 8 neighbours are solid or out of bounds
WindowSolid ==
    \A dx \in -1..1 : \A dy \in -1..1 : SolidOrOutside(call.x + dx, call.y + dy)

\* a cell exactly 2 tiles away orthogonally is in bounds and not solid
AirTwoAway ==
    \E off \in {<<-2, 0>>, <<2, 0>>, <<0, -2>>, <<0, 2>>} :
        /\ InGrid(call.x + off[1], call.y + off[2])
        /\ ~is_solid_tile(CellAt(call.x + off[1], call.y + off[2]))

IsExplicit(r) == r.mask # Padding /\ r.mask # Center

\* the explicit rules of the called tile-type whose mask matches the window
MatchingExplicit ==
    {i \in 1..Len(CallRules) :
        IsExplicit(CallRules[i]) /\ mask_matches(call.n, CallRules[i].mask, CallIgnores)}

PaddingRules == {i \in 1..Len(CallRules) : CallRules[i].mask = Padding}
CenterRules == {i \in 1..Len(CallRules) : CallRules[i].mask = Center}

\* an explicit, a padding and a center rule are all satisfied at the called cell
AllThreeSatisfied ==
    /\ Registered
    /\ MatchingExplicit # {} /\ PaddingRules # {} /\ CenterRules # {}
    /\ WindowSolid /\ AirTwoAway

ReturnedFrom(S) ==
    /\ call.ret.coord.some
    /\ \E i \in S : call.ret.coord.val \in Range(CallRules[i].tiles)

----------------------------------------------------------------------------
(* C1 *)

\* C1 as stated: when an explicit, a padding and a center rule are all
\* satisfied, the returned coordinate is a candidate of a satisfied explicit
\* rule and of no padding or center rule.
C1_Original ==
    AllThreeSatisfied =>
        /\ ReturnedFrom(MatchingExplicit)
        /\ ~ReturnedFrom(PaddingRules \cup CenterRules)

\* C1 (amended): when an explicit rule that lists at least one candidate, a
\* padding rule and a center rule are all satisfied, the returned coordinate
\* is a candidate of a satisfied explicit rule, never of the padding or
\* center rule, wherever the rules sit in the list.
C1_ExplicitWins ==
    (AllThreeSatisfied /\ \E i \in MatchingExplicit : CallRules[i].tiles # <<>>) =>
        /\ call.ret.via = "explicit"
        /\ ReturnedFrom(MatchingExplicit)
        /\ ~ReturnedFrom(PaddingRules \cup CenterRules)

\* the explicit rule wins although a padding and a center rule precede it
C1_Witness ==
    /\ AllThreeSatisfied
    /\ Len(CallRules) = 3 /\ IsExplicit(CallRules[3]) /\ CallRules[3].tiles # <<>>
    /\ CallRules[1].mask = Padding /\ CallRules[1].tiles # <<>>
    /\ call.ret.via = "explicit" /\ call.ret.rule = 3

----------------------------------------------------------------------------
(* C2 *)

\* C2 as stated: the call returns a candidate of the first explicit rule whose
\* mask matches the window.
C2_Original ==
    (Registered /\ MatchingExplicit # {}) =>
        ReturnedFrom({FirstHit(MatchingExplicit)})

\* C2 (amended): the call returns a candidate of the first explicit rule, in
\* list order, whose mask matches the window and which lists at least one
\* candidate; no later rule is chosen over it.
C2_FirstExplicitWithCandidates ==
    Registered =>
        \A i \in MatchingExplicit :
            (/\ CallRules[i].tiles # <<>>
             /\ \A j \in MatchingExplicit : j < i => CallRules[j].tiles = <<>>)
            => /\ call.ret.via = "explicit" /\ call.ret.rule = i
               /\ ReturnedFrom({i})
               /\ \A k \in MatchingExplicit : k > i /\ CallRules[k].tiles # CallRules[i].tiles
                     => ~ReturnedFrom({k})

\* two explicit rules with candidates match; the earlier one is returned
C2_Witness ==
    /\ Registered
    /\ \E i, k \in MatchingExplicit :
          /\ i < k /\ CallRules[i].tiles # <<>> /\ CallRules[k].tiles # <<>>
          /\ CallRules[i].tiles # CallRules[k].tiles
          /\ call.ret.rule = i /\ ReturnedFrom({i})

----------------------------------------------------------------------------
(* C4 *)

\* C4 as stated: for a tile-type whose first padding rule lists a candidate,
\* the padding rule is returned exactly when no explicit rule produced a
\* result, the centre and its 8 neighbours are solid or out of bounds, and a
\* cell 2 tiles away orthogonally is in bounds (per row) and not solid.
C4_PaddingExactly ==
    (Registered /\ PaddingRules # {} /\ CallRules[FirstHit(PaddingRules)].tiles # <<>>) =>
        (call.ret.via = "padding" <=>
            /\ \A i \in MatchingExplicit : CallRules[i].tiles = <<>>
            /\ WindowSolid
            /\ AirTwoAway)

----------------------------------------------------------------------------
(* C6 *)

\* no explicit, padding or center rule of the called tile-type applies
NoRuleApplies ==
    /\ MatchingExplicit = {}
    /\ PaddingRules # {} => ~(WindowSolid /\ AirTwoAway)
    /\ CenterRules # {} => ~WindowSolid

\* C6: the call returns None if and only if the tile-type has no entry in the
\* rule map; a registered tile-type always gets a coordinate, which is (0,0)
\* when none of its rules applies (also when it has no rule at all).
C6_NoneIffUnregistered ==
    call.made =>
        /\ (call.ret.coord = None <=> call.tile_id \notin DOMAIN tilesets)
        /\ Registered => call.ret.coord.some
        /\ (Registered /\ NoRuleApplies) => call.ret.coord = Some(<<0, 0>>)

\* an unregistered tile-type has been resolved to None
C6_Witness ==
    /\ call.made /\ call.tile_id \notin DOMAIN tilesets /\ DOMAIN tilesets # {}
    /\ call.ret.coord = None

----------------------------------------------------------------------------
(* C9 *)

\* C9: when the winning rule lists N >= 1 candidates, the call returns the
\* candidate at index (x*31 + y*17) mod N.
C9_CandidateIndex ==
    (Registered /\ call.ret.via \in {"explicit", "padding", "center"}) =>
        LET tiles == CallRules[call.ret.rule].tiles
            N     == Len(tiles)
        IN  /\ N >= 1
            /\ call.ret.coord = Some(tiles[((call.x * 31 + call.y * 17) % N) + 1])

\* a rule with 3 candidates won at a cell whose index is not 0
C9_Witness ==
    /\ Registered /\ call.ret.via = "padding"
    /\ Len(CallRules[call.ret.rule].tiles) = 3
    /\ (call.x * 31 + call.y * 17) % 3 = 2
    /\ call.ret.coord = Some(CallRules[call.ret.rule].tiles[3])

----------------------------------------------------------------------------
(* C3 and C5: one position of an explicit mask *)

\* the explicit mask that is m at row r, column c of the window, x elsewhere
MaskWith(m, r, c) ==
    LET row(i) == [j \in 1..3 |-> IF i = r /\ j = c THEN m ELSE "x"]
    IN  Rows3(row(1), row(2), row(3))

\* the grid cell under row r, column c of the called cell's window
WinInGrid(r, c) == InGrid(call.x + c - 2, call.y + r - 2)
WinCell(r, c) == CellAt(call.x + c - 2, call.y + r - 2)

\* C3 as stated: a '1' fails only on an in-bounds cell that is not solid,
\* whatever the ignores string contains.
C3_Original ==
    Registered =>
        \A r \in 1..3 : \A c \in 1..3 :
            mask_matches(call.n, MaskWith("1", r, c), CallIgnores)
                <=> ~(WinInGrid(r, c) /\ ~is_solid_tile(WinCell(r, c)))

\* C3 (amended): a '1' fails exactly when the cell is in bounds and is either
\* not solid or listed in the tileset's ignores string; a rule whose mask is
\* '1' at all 9 positions is returned exactly when no position fails.
C3_OneFailsOnAirOrIgnored ==
    Registered =>
        /\ \A r \in 1..3 : \A c \in 1..3 :
              mask_matches(call.n, MaskWith("1", r, c), CallIgnores)
                  <=> ~(WinInGrid(r, c)
                        /\ (~is_solid_tile(WinCell(r, c)) \/ Ignored(WinCell(r, c))))
        /\ CallRules[1].mask = MaskAll =>
              (call.ret.via = "explicit" <=>
                  \A r \in 1..3 : \A c \in 1..3 :
                      ~(WinInGrid(r, c)
                        /\ (~is_solid_tile(WinCell(r, c)) \/ Ignored(WinCell(r, c)))))

\* the all-'1' rule was refused because of a solid neighbour that is ignored
C3_Witness ==
    /\ Registered /\ CallRules[1].mask = MaskAll
    /\ \A r \in 1..3 : \A c \in 1..3 : WinInGrid(r, c) => is_solid_tile(WinCell(r, c))
    /\ \E r \in 1..3 : \E c \in 1..3 :
          (r # 2 \/ c # 2) /\ WinInGrid(r, c) /\ Ignored(WinCell(r, c))
    /\ ~Ignored(WinCell(2, 2))
    /\ call.ret.via = "default"

\* C5 as stated: cells of the window outside the grid count as solid: at
\* corner (0,0) an all-'1' mask matches when every in-bounds neighbour is
\* solid, and an out-of-bounds cell never satisfies a '0'.
C5_Original ==
    Registered =>
        /\ \A r \in 1..3 : \A c \in 1..3 :
              ~WinInGrid(r, c) => ~mask_matches(call.n, MaskWith("0", r, c), CallIgnores)
        /\ (/\ call.x = 0 /\ call.y = 0 /\ CallRules[1].mask = MaskAll
            /\ is_solid_tile(WinCell(2, 2)) /\ ~Ignored(WinCell(2, 2))
            /\ \A r \in 1..3 : \A c \in 1..3 :
                  WinInGrid(r, c) => is_solid_tile(WinCell(r, c)))
           => call.ret.via = "explicit"

\* C5 (amended): a window cell outside the grid (negative index, row past the
\* last row, column past the end of its ragged row) is the sentinel, satisfies
\* '1' and never satisfies '0'; at corner (0,0) the all-'1' rule is returned
\* exactly when every in-bounds cell of the window is solid and not listed in
\* the tileset's ignores string.
C5_OutsideIsSolid ==
    Registered =>
        /\ \A r \in 1..3 : \A c \in 1..3 :
              /\ (call.n[r][c] = NUL <=> ~WinInGrid(r, c))
              /\ WinInGrid(r, c) => call.n[r][c] = WinCell(r, c)
              /\ ~WinInGrid(r, c) =>
                    /\ mask_matches(call.n, MaskWith("1", r, c), CallIgnores)
                    /\ ~mask_matches(call.n, MaskWith("0", r, c), CallIgnores)
        /\ (call.x = 0 /\ call.y = 0 /\ CallRules[1].mask = MaskAll) =>
              (call.ret.via = "explicit" <=>
                  \A r \in 1..3 : \A c \in 1..3 :
                      WinInGrid(r, c) =>
                          is_solid_tile(WinCell(r, c)) /\ ~Ignored(WinCell(r, c)))
        /\ (CallRules[1].mask = MaskLeftAir /\ ~WinInGrid(2, 1)) => call.ret.via # "explicit"

\* at corner (0,0) of a ragged grid the all-'1' rule matched: the row below
\* is shorter than the window, the rest of the window lies outside the grid
C5_Witness ==
    /\ Registered /\ call.x = 0 /\ call.y = 0 /\ CallRules[1].mask = MaskAll
    /\ WinInGrid(2, 3) /\ WinInGrid(3, 2) /\ ~WinInGrid(3, 3)
    /\ call.ret.via = "explicit"

----------------------------------------------------------------------------
(* C7 and C8: what the loaded file declares *)

\* the parse of the file the rule map was loaded from, before inheritance
Declared == ParseEvents(files[rules_path.val], 1, ParseStart)

OwnRules(id) == MapGetOr(Declared.rules_by_id, id, <<>>)

\* tile-type b declares copy="a" and no <set> of its own
CopiesBare(b, a) ==
    /\ b \in DOMAIN Declared.copy_map /\ Declared.copy_map[b] = a
    /\ OwnRules(b) = <<>>

\* C7 as stated: a tile-type b with copy="a" and no rule of its own resolves
\* as a does, at every cell of every grid (a and b both in the rule map).
C7_Original ==
    (rules_path.some /\ call.made) =>
        \A a \in DOMAIN tilesets :
            (CopiesBare(call.tile_id, a) /\ call.tile_id \in DOMAIN tilesets) =>
                call.ret.coord = autotile_tile_coord(a, solids, call.x, call.y, tilesets).coord

\* C7 (amended): a tile-type b with copy="a" and no rule of its own resolves
\* as a does at every cell, provided a and b both declare a path (both are in
\* the rule map), a declares no copy of its own, and a and b carry the same
\* ignores attribute; b's rule list is then a's.
C7_CopyResolvesAlike ==
    (rules_path.some /\ call.made) =>
        \A a \in TileIds :
            (/\ CopiesBare(call.tile_id, a)
             /\ {a, call.tile_id} \subseteq DOMAIN Declared.path_by_id
             /\ a \notin DOMAIN Declared.copy_map
             /\ Declared.ignores_by_id[a] = Declared.ignores_by_id[call.tile_id])
            => /\ tilesets[call.tile_id].rules = OwnRules(a)
               /\ tilesets[call.tile_id].rules = tilesets[a].rules
               /\ call.ret.coord = autotile_tile_coord(a, solids, call.x, call.y, tilesets).coord

\* b copied a's rule and was resolved through it
C7_Witness ==
    /\ rules_path.some /\ call.made
    /\ \E a \in TileIds :
          /\ CopiesBare(call.tile_id, a) /\ a # call.tile_id
          /\ {a, call.tile_id} \subseteq DOMAIN Declared.path_by_id
          /\ a \notin DOMAIN Declared.copy_map
          /\ Declared.ignores_by_id[a] = Declared.ignores_by_id[call.tile_id]
          /\ OwnRules(a) # <<>>
    /\ call.ret.via = "explicit"

\* C8 as stated: after a load, the rule list of a tile-type that declares
\* copy="z" is its own declared rules followed by z's own declared rules,
\* whatever the order in which the copy references were resolved.
C8_OneHopAnyOrder ==
    rules_path.some =>
        \A id \in (DOMAIN tilesets) \cap (DOMAIN Declared.copy_map) :
            tilesets[id].rules = OwnRules(id) \o OwnRules(Declared.copy_map[id])

----------------------------------------------------------------------------
(* C10 *)

\* C10 as stated: get_tilesets_with_rules(p) returns the rule map parsed from
\* file p, also after the cache was filled from another path.
C10_CacheKeyedByPath ==
    rules_path.some =>
        tilesets = load_tilesets_with_rules(files[rules_path.val], <<>>)

----------------------------------------------------------------------------
(* SpecLife: the process-wide cells over the life of a session in which    *)
(* rule files that could not be opened become readable                     *)

FileStates == {"missing", "unreadable", "readable"}

InitLife ==
    /\ files \in [Paths -> CacheFiles]
    /\ fstat \in [Paths -> FileStates]
    /\ celeste_dir \in {None, Some("d1")}
    /\ solids = <<(<<"1">>)>>
    /\ NotLoaded

NextLife ==
    \/ GetTilesets("fg")
    \/ EnsurePathMaps
    \/ \E p \in Paths : FileFixed(p)

SpecLife == InitLife /\ [][NextLife]_vars

----------------------------------------------------------------------------
(* SpecBroken: load_tilesets_with_rules on files that are missing,         *)
(* unreadable, or cut short by an XML read error                           *)

ErrEv == [kind |-> "Err"]

\* a rule file with two tile-types, and the same file with a read error
\* after its first k events
TwoTilesets ==
    TilesetElement("1", Some("dirt"), None, None, <<SetAll>>)
        \o TilesetElement("2", Some("stone"), Some("1"), None, <<SetCenter>>)

BrokenFiles ==
    {TwoTilesets} \cup {SubSeq(TwoTilesets, 1, k) \o <<ErrEv>> : k \in 0..Len(TwoTilesets)}

Malformed(events) == \E i \in 1..Len(events) : events[i].kind = "Err"

InitBroken ==
    /\ files \in {[p \in Paths |-> IF p = "fg" THEN f ELSE <<>>] : f \in BrokenFiles}
    /\ fstat \in [Paths -> FileStates]
    /\ celeste_dir = Some("d1")
    /\ solids \in LoadGrids
    /\ NotLoaded

NextBroken ==
    \/ \E p \in Paths : Load(p)
    \/ \E tile_id \in {"1", "2"}, x \in Xs, y \in Ys : Autotile(tile_id, x, y)

SpecBroken == InitBroken /\ [][NextBroken]_vars

----------------------------------------------------------------------------
(* C11 *)

\* C11 as stated: a get_tilesets_with_rules call made while the rule file is
\* readable returns the parsed contents of the file, also when an earlier
\* call found the file missing or unreadable; a path-map cell that is set
\* holds the parsed contents of its file.
C11_OnlySuccessCached ==
    /\ (last_get.made /\ OpenOk(last_get.stat)) =>
          last_get.ret = load_tilesets_with_rules(files[last_get.path], <<>>)
    /\ TILESET_ID_PATH_MAP_FG.some =>
          TILESET_ID_PATH_MAP_FG.val = load_tileset_id_path_map("readable", files["fg"], <<>>)
    /\ TILESET_ID_PATH_MAP_BG.some =>
          TILESET_ID_PATH_MAP_BG.val = load_tileset_id_path_map("readable", files["bg"], <<>>)

----------------------------------------------------------------------------
(* C12 *)

\* C12 as stated: load_tilesets_with_rules returns the empty rule map when
\* the file is missing or unreadable and when the file is malformed, also
\* when the read error comes after some Tileset elements were read.
C12_EmptyOnMissingOrMalformed ==
    (rules_path.some /\ (~OpenOk(fstat[rules_path.val]) \/ Malformed(files[rules_path.val])))
        => tilesets = EmptyMap

----------------------------------------------------------------------------
(* Binary files: a file is the sequence of its bytes (0..255); a read      *)
(* result is [ok, val, pos], pos the 0-based offset of the next byte.      *)
(* byteorder::ReadBytesExt fails with UnexpectedEof past the end.          *)

IoErr == [ok |-> FALSE, err |-> "io"]
Panic == [ok |-> FALSE, err |-> "panic"]

read_u8(bytes, pos) ==
    IF pos + 1 > Len(bytes) THEN IoErr
    ELSE [ok |-> TRUE, val |-> bytes[pos + 1], pos |-> pos + 1]

\* read_i16::<LittleEndian>: two bytes, two's complement
read_i16(bytes, pos) ==
    IF pos + 2 > Len(bytes) THEN IoErr
    ELSE LET u == bytes[pos + 1] + 256 * bytes[pos + 2]
         IN  [ok |-> TRUE, val |-> IF u >= 32768 THEN u - 65536 ELSE u, pos |-> pos + 2]

\* read_i32::<LittleEndian>: four bytes, two's complement
read_i32(bytes, pos) ==
    IF pos + 4 > Len(bytes) THEN IoErr
    ELSE LET b4 == bytes[pos + 4]
         IN  [ok |-> TRUE,
              val |-> bytes[pos + 1] + 256 * bytes[pos + 2] + 65536 * bytes[pos + 3]
                      + 16777216 * (IF b4 >= 128 THEN b4 - 256 ELSE b4),
              pos |-> pos + 4]

\* `as u32` of an i32, for the values 0..32767 the files of this model carry
\* (a negative i32 becomes a u32 of 2^31 or more)
AsU32(v) == v

\* read_string: a length byte, that many bytes, String::from_utf8.  A string
\* is kept as its bytes; 128..255 stand for ill-formed UTF-8 (0xFF never is
\* valid), every smaller byte is ASCII.
read_string(bytes, pos) ==
    LET len == read_u8(bytes, pos)
    IN  IF ~len.ok THEN IoErr
        ELSE IF len.pos + len.val > Len(bytes) THEN IoErr
        ELSE LET buf == SubSeq(bytes, len.pos + 1, len.pos + len.val)
             IN  IF \E i \in 1..Len(buf) : buf[i] >= 128 THEN IoErr
                 ELSE [ok |-> TRUE, val |-> buf, pos |-> len.pos + len.val]

----------------------------------------------------------------------------
(* src/src/data/celeste_atlas.rs: load_data_file                           *)
(*                                                                         *)
(* overflow_checks is the build's setting: `repeats_left -= 1` on 0 panics *)
(* with it (debug profile) and wraps to 255 without it (release profile).  *)
(* The decoder's locals carry `runs`, the list of the run headers it read  *)
(* and the pixel count at which it read each.                              *)

\* the run header at pos: rep, then the colour as has_alpha prescribes
ReadRun(bytes, pos, has_alpha) ==
    LET rep == read_u8(bytes, pos)
    IN  IF ~rep.ok THEN IoErr
        ELSE IF has_alpha
        THEN LET alpha == read_u8(bytes, rep.pos)
             IN  IF ~alpha.ok THEN IoErr
                 ELSE IF alpha.val > 0
                 THEN LET b == read_u8(bytes, alpha.pos)
                          g == IF b.ok THEN read_u8(bytes, b.pos) ELSE IoErr
                          r == IF g.ok THEN read_u8(bytes, g.pos) ELSE IoErr
                      IN  IF ~r.ok THEN IoErr
                          ELSE [ok |-> TRUE, rep |-> rep.val, pos |-> r.pos,
                                rgba |-> <<r.val, g.val, b.val, alpha.val>>]
                 ELSE [ok |-> TRUE, rep |-> rep.val, pos |-> alpha.pos,
                       rgba |-> <<0, 0, 0, 0>>]
        ELSE LET b == read_u8(bytes, rep.pos)
                 g == IF b.ok THEN read_u8(bytes, b.pos) ELSE IoErr
                 r == IF g.ok THEN read_u8(bytes, g.pos) ELSE IoErr
             IN  IF ~r.ok THEN IoErr
                 ELSE [ok |-> TRUE, rep |-> rep.val, pos |-> r.pos,
                       rgba |-> <<r.val, g.val, b.val, 255>>]

\* the locals before the loop
DecodeStart(pos) ==
    [pos |-> pos, pixels |-> <<>>, total_pixels |-> 0, repeats_left |-> 0,
     rgba |-> <<0, 0, 0, 255>>, runs |-> <<>>]

\* `while total_pixels < width * height { ... }`
RECURSIVE DecodeLoop(_, _, _, _, _)
DecodeLoop(bytes, wh, has_alpha, st, overflow_checks) ==
    IF ~(st.total_pixels < wh) THEN [ok |-> TRUE, st |-> st]
    ELSE LET run == IF st.repeats_left = 0 THEN ReadRun(bytes, st.pos, has_alpha) ELSE IoErr
             s1  == IF st.repeats_left = 0 /\ run.ok
                    THEN [st EXCEPT !.pos = run.pos, !.repeats_left = run.rep,
                                    !.rgba = run.rgba,
                                    !.runs = Append(@, [at |-> st.total_pixels, rep |-> run.rep,
                                                        rgba |-> run.rgba])]
                    ELSE st
         IN  IF st.repeats_left = 0 /\ ~run.ok THEN IoErr
             ELSE IF s1.repeats_left = 0 /\ overflow_checks THEN Panic
             ELSE DecodeLoop(bytes, wh, has_alpha,
                    [s1 EXCEPT !.pixels = Append(@, s1.rgba),
                               !.repeats_left = (@ - 1) % 256,
                               !.total_pixels = @ + 1],
                    overflow_checks)

\* load_data_file(data_path): file is None when File::open fails
load_data_file(file, overflow_checks) ==
    IF ~file.some THEN IoErr
    ELSE LET bytes == file.val
             w  == read_i32(bytes, 0)
             h  == IF w.ok THEN read_i32(bytes, w.pos) ELSE IoErr
             ha == IF h.ok THEN read_u8(bytes, h.pos) ELSE IoErr
         IN  IF ~ha.ok THEN IoErr
             ELSE LET width  == AsU32(w.val)
                      height == AsU32(h.val)
                      d == DecodeLoop(bytes, width * height, ha.val # 0,
                                      DecodeStart(ha.pos), overflow_checks)
                  IN  IF ~d.ok THEN d
                      ELSE IF Len(d.st.pixels) < width * height THEN IoErr
                      ELSE [ok |-> TRUE,
                            val |-> [width |-> width, height |-> height,
                                     pixels |-> d.st.pixels],
                            runs |-> d.st.runs]

----------------------------------------------------------------------------
(* src/src/celeste_atlas.rs: load_data_file of the crate-root module       *)

Min(a, b) == IF a <= b THEN a ELSE b

\* "alpha un-premultiplication": c / (alpha / 255), clamped, truncated by `as u8`
Unpremultiply(rgba) ==
    LET alpha == rgba[4]
        f(c)  == Min(255, (c * 255) \div alpha)
    IN  IF alpha < 255 /\ alpha > 0
        THEN <<f(rgba[1]), f(rgba[2]), f(rgba[3]), alpha>>
        ELSE rgba

\* `for y in 0..height { repeats_left = 0; for x in 0..width { ... } }`,
\* i = y * width + x
RECURSIVE RowLoop(_, _, _, _, _, _)
RowLoop(bytes, width, height, has_alpha, st, i) ==
    IF i >= width * height THEN [ok |-> TRUE, st |-> st]
    ELSE LET s0  == IF i % width = 0 THEN [st EXCEPT !.repeats_left = 0] ELSE st
             run == IF s0.repeats_left = 0 THEN ReadRun(bytes, s0.pos, has_alpha) ELSE IoErr
         IN  IF s0.repeats_left = 0
             THEN IF ~run.ok THEN IoErr
                  ELSE RowLoop(bytes, width, height, has_alpha,
                         [s0 EXCEPT !.pos = run.pos,
                                    !.repeats_left = IF run.rep > 0 THEN run.rep - 1 ELSE 0,
                                    !.rgba = Unpremultiply(run.rgba),
                                    !.pixels = Append(@, Unpremultiply(run.rgba)),
                                    !.total_pixels = @ + 1,
                                    !.runs = Append(@, [at |-> i, rep |-> run.rep,
                                                        rgba |-> Unpremultiply(run.rgba)])],
                         i + 1)
             ELSE RowLoop(bytes, width, height, has_alpha,
                    [s0 EXCEPT !.pixels = Append(@, s0.rgba),
                               !.repeats_left = @ - 1,
                               !.total_pixels = @ + 1],
                    i + 1)

celeste_atlas_load_data_file(file) ==
    IF ~file.some THEN IoErr
    ELSE LET bytes == file.val
             w  == read_i32(bytes, 0)
             h  == IF w.ok THEN read_i32(bytes, w.pos) ELSE IoErr
             ha == IF h.ok THEN read_u8(bytes, h.pos) ELSE IoErr
         IN  IF ~ha.ok THEN IoErr
             ELSE LET width  == AsU32(w.val)
                      height == AsU32(h.val)
                      d == RowLoop(bytes, width, height, ha.val # 0, DecodeStart(ha.pos), 0)
                  IN  IF ~d.ok THEN d
                      ELSE [ok |-> TRUE,
                            val |-> [width |-> width, height |-> height,
                                     pixels |-> d.st.pixels],
                            runs |-> d.st.runs]

----------------------------------------------------------------------------
(* Writing binary files: the inverse of the readers, used to lay out the   *)
(* files the specifications start from                                     *)

U8(v) == <<v % 256>>
I16LE(v) == <<(v % 65536) % 256, (v % 65536) \div 256>>
I32LE(v) == <<v % 256, (v \div 256) % 256, (v \div 65536) % 256, (v \div 16777216) % 256>>
Str(s) == <<Len(s)>> \o s

RECURSIVE Flatten(_)
Flatten(ss) == IF ss = <<>> THEN <<>> ELSE Head(ss) \o Flatten(Tail(ss))

\* one run of the pixel stream: rep, then alpha and B, G, R as the scheme says
RunBytes(has_alpha, rep, rgba) ==
    IF has_alpha
    THEN IF rgba[4] > 0 THEN <<rep, rgba[4], rgba[3], rgba[2], rgba[1]>> ELSE <<rep, 0>>
    ELSE <<rep, rgba[3], rgba[2], rgba[1]>>

\* a .data file: width, height, has_alpha, the runs
DataFile(width, height, has_alpha, runs) ==
    I32LE(width) \o I32LE(height) \o U8(IF has_alpha THEN 1 ELSE 0)
        \o Flatten([i \in 1..Len(runs) |-> RunBytes(has_alpha, runs[i].rep, runs[i].rgba)])

----------------------------------------------------------------------------
(* The .data files and the decode operations *)

MaxW == 2
MaxH == 2
MaxRuns == 3

RunReps == {0, 1, 3}

\* the colours a run can carry, as (r, g, b, a)
RunColours(has_alpha) ==
    IF has_alpha
    THEN {<<0, 0, 0, 0>>, <<30, 20, 10, 128>>, <<30, 20, 10, 255>>, <<0, 0, 0, 255>>}
    ELSE {<<30, 20, 10, 255>>, <<0, 0, 0, 255>>}

RunSet(has_alpha) == [rep : RunReps, rgba : RunColours(has_alpha)]

DataFiles ==
    UNION {{DataFile(w, h, ha, runs) : w \in 0..MaxW, h \in 0..MaxH,
                                       runs \in SeqsUpTo(RunSet(ha), MaxRuns)} :
           ha \in BOOLEAN}

\* the name "t" of a data file, as bytes
NameT == <<116>>

\* the bytes of <atlas_dir>/<name>.data, None when it cannot be opened
DataAt(name) ==
    IF celeste_dir.some /\ name \in DOMAIN disk[celeste_dir.val].data
    THEN Some(disk[celeste_dir.val].data[name])
    ELSE None

\* data::celeste_atlas::AtlasManager::load_data_file(<name>.data)
LoadDataFile(name) ==
    \E overflow_checks \in BOOLEAN :
        /\ loaded' = [made |-> TRUE, module |-> "data::celeste_atlas", name |-> name,
                      overflow_checks |-> overflow_checks,
                      ret |-> load_data_file(DataAt(name), overflow_checks)]
        /\ UNCHANGED <<installVars, registryVars, buffer>>
        /\ UNCHANGED <<tileVars, editorVars>>

\* celeste_atlas::AtlasManager::load_data_file(<name>.data)
LoadDataFileRoot(name) ==
    \E overflow_checks \in BOOLEAN :
        /\ loaded' = [made |-> TRUE, module |-> "celeste_atlas", name |-> name,
                      overflow_checks |-> overflow_checks,
                      ret |-> celeste_atlas_load_data_file(DataAt(name))]
        /\ UNCHANGED <<installVars, registryVars, buffer>>
        /\ UNCHANGED <<tileVars, editorVars>>

\* the tile side of the editor, idle
TilesIdle ==
    /\ files = [p \in Paths |-> <<>>]
    /\ solids = <<>>
    /\ NotLoaded_Tiles
    /\ FilesReadable

\* the registry before any load, with the one data file f on disk
OneDataFile(f) ==
    /\ celeste_dir = Some("d1")
    /\ disk = [d \in Dirs |-> IF d = "d1" THEN [meta |-> EmptyMap, data |-> MapPut(EmptyMap, NameT, f)]
                                          ELSE NoAtlasFiles]
    /\ layout = None
    /\ RegistryNew
    /\ loaded = NoCall
    /\ EditorIdle

----------------------------------------------------------------------------
(* SpecData: both decoders on every .data file of up to MaxRuns runs *)

InitData ==
    /\ TilesIdle
    /\ \E f \in DataFiles : OneDataFile(f)
    /\ buffer = None

NextData ==
    \/ LoadDataFile(NameT)
    \/ LoadDataFileRoot(NameT)

SpecData == InitData /\ [][NextData]_vars

----------------------------------------------------------------------------
(* C13 and C14: the runs of a decoded image *)

Decoded == loaded.made /\ loaded.ret.ok

Runs == loaded.ret.runs
Pixels == loaded.ret.val.pixels
TotalPixels == loaded.ret.val.width * loaded.ret.val.height

\* the number of pixels written between run header i and the next header
\* (or the end of the image)
RunPixels(i) ==
    (IF i < Len(Runs) THEN Runs[i + 1].at ELSE Len(Pixels)) - Runs[i].at

\* C13 as stated: a run whose repeat_count byte is 0 produces exactly one
\* pixel, after which the next run header is read (when the image is not yet
\* complete); the 8-bit repeat counter never underflows.
C13_ZeroRunIsOnePixel ==
    loaded.made =>
        /\ loaded.ret # Panic
        /\ loaded.ret.ok =>
              \A i \in 1..Len(Runs) :
                  Runs[i].rep = 0 =>
                      /\ RunPixels(i) = 1
                      /\ Runs[i].at + 1 < TotalPixels => i < Len(Runs)

\* C14 as stated: a run with repeat_count n > 0 yields n consecutive pixels
\* of its colour in row-major order, also across a row boundary (cut only by
\* the end of the image), and decoding stops after width*height pixels.
C14_RunAcrossRows ==
    Decoded =>
        /\ Len(Pixels) = TotalPixels
        /\ \A i \in 1..Len(Runs) :
              Runs[i].rep > 0 =>
                  /\ RunPixels(i) = Min(Runs[i].rep, TotalPixels - Runs[i].at)
                  /\ \A k \in 1..RunPixels(i) : Pixels[Runs[i].at + k] = Runs[i].rgba

----------------------------------------------------------------------------
(* SpecCodec: an encoder that follows the documented run-length scheme,    *)
(* and both decoders on what it wrote                                      *)

MaxRep == 255

\* the length of the run of pixels equal to the first one, at most MaxRep
RECURSIVE RunLength(_, _)
RunLength(pixels, n) ==
    IF n < Len(pixels) /\ n < MaxRep /\ pixels[n + 1] = pixels[1]
    THEN RunLength(pixels, n + 1)
    ELSE n

\* the runs of a row-major pixel stream: runs go on across row boundaries
RECURSIVE EncodeRuns(_)
EncodeRuns(pixels) ==
    IF pixels = <<>> THEN <<>>
    ELSE LET n == RunLength(pixels, 1)
         IN  <<[rep |-> n, rgba |-> pixels[1]]>>
                 \o EncodeRuns(SubSeq(pixels, n + 1, Len(pixels)))

\* the .data file of an RGBA buffer, written with the alpha flag set
Encode(image) == DataFile(image.width, image.height, TRUE, EncodeRuns(image.pixels))

CodecPixels == {<<0, 0, 0, 0>>, <<30, 20, 10, 255>>, <<30, 20, 10, 128>>, <<30, 20, 10, 0>>}

Buffers ==
    UNION {{[width |-> w, height |-> h, pixels |-> px] : px \in [1..(w * h) -> CodecPixels]} :
           w \in 1..MaxW, h \in 1..MaxH}

\* the encoder writes the buffer to t.data, before anything is decoded
EncodeBuffer ==
    /\ buffer.some /\ celeste_dir.some
    /\ loaded = NoCall
    /\ NameT \notin DOMAIN disk[celeste_dir.val].data
    /\ disk' = [disk EXCEPT ![celeste_dir.val].data = MapPut(@, NameT, Encode(buffer.val))]
    /\ UNCHANGED <<celeste_dir, layout, registryVars, loaded, buffer>>
    /\ UNCHANGED <<tileVars, editorVars>>

InitCodec ==
    /\ TilesIdle
    /\ celeste_dir = Some("d1")
    /\ AtlasIdle_NoBuffer
    /\ buffer \in {Some(b) : b \in Buffers}

NextCodec ==
    \/ EncodeBuffer
    \/ LoadDataFile(NameT)
    \/ LoadDataFileRoot(NameT)

SpecCodec == InitCodec /\ [][NextCodec]_vars

----------------------------------------------------------------------------
(* C15 *)

\* C15 as stated: decoding the encoding of any width x height RGBA buffer
\* yields the identical pixel buffer.
C15_RoundTrip ==
    (loaded.made /\ buffer.some /\ DataAt(NameT) = Some(Encode(buffer.val))) =>
        /\ loaded.ret.ok
        /\ loaded.ret.val = buffer.val

----------------------------------------------------------------------------
(* src/src/data/celeste_atlas.rs: the .meta parser                         *)
(*                                                                         *)
(* A coordinate of a UV rectangle is kept as the fraction it is computed   *)
(* from, [num, den], not as the f32 quotient.  A TextureId is the number   *)
(* egui's texture manager handed out for it.                               *)

Frac(n, d) == [num |-> n, den |-> d]

\* str::replace("\\", "/") on the bytes of a path
Normalize(path) == [i \in 1..Len(path) |-> IF path[i] = 92 THEN 47 ELSE path[i]]

\* Atlas::new(name)
Atlas_new(name) ==
    [name |-> name, sprites |-> EmptyMap, textures |-> EmptyMap, data_files |-> <<>>,
     images |-> EmptyMap]

\* k consecutive read_i16 calls: the first that finds fewer than two bytes
\* left fails
ReadI16s(bytes, pos, k) ==
    IF pos + 2 * k > Len(bytes) THEN IoErr
    ELSE [ok |-> TRUE, vals |-> [i \in 1..k |-> read_i16(bytes, pos + 2 * (i - 1)).val],
          pos |-> pos + 2 * k]

\* the Sprite built from the eight values of a record
SpriteOf_SwappedXY(v, texture_id, data_file, W, H) ==
    [metadata |-> [x |-> v[2], y |-> v[1], width |-> v[3], height |-> v[4],
                   offset_x |-> v[5], offset_y |-> v[6],
                   real_width |-> v[7], real_height |-> v[8]],
     texture_id |-> texture_id,
     data_file |-> data_file,
     uv_rect |-> Some([min |-> <<Frac(v[2], W), Frac(v[1], H)>>,
                       max |-> <<Frac(v[2] + v[3], W), Frac(v[1] + v[4], H)>>])]

SpriteOf(v, texture_id, data_file, W, H) ==
    [metadata |-> [x |-> v[1], y |-> v[2], width |-> v[3], height |-> v[4],
                   offset_x |-> v[5], offset_y |-> v[6],
                   real_width |-> v[7], real_height |-> v[8]],
     texture_id |-> texture_id,
     data_file |-> data_file,
     uv_rect |-> Some([min |-> <<Frac(v[1], W), Frac(v[2], H)>>,
                       max |-> <<Frac(v[1] + v[3], W), Frac(v[2] + v[4], H)>>])]

\* `for _ in 0..sprites_count { ... }`, one definition per `?` of the body:
\* ReadSprites reads the path, SpritePath the eight values, SpriteValues
\* inserts the sprite under the normalised path and goes on
RECURSIVE ReadSprites(_, _, _, _, _, _, _, _)
RECURSIVE SpritePath(_, _, _, _, _, _, _, _)
RECURSIVE SpriteValues(_, _, _, _, _, _, _, _, _)
ReadSprites(bytes, pos, n, sprites, data_file, texture_id, W, H) ==
    IF n <= 0 THEN [ok |-> TRUE, pos |-> pos, sprites |-> sprites]
    ELSE SpritePath(read_string(bytes, pos), bytes, n, sprites, data_file, texture_id, W, H)

SpritePath(path, bytes, n, sprites, data_file, texture_id, W, H) ==
    IF ~path.ok THEN IoErr
    ELSE SpriteValues(ReadI16s(bytes, path.pos, 8), path.val, bytes, n, sprites,
                      data_file, texture_id, W, H)

SpriteValues(v, path, bytes, n, sprites, data_file, texture_id, W, H) ==
    IF ~v.ok THEN IoErr
    ELSE ReadSprites(bytes, v.pos, n - 1,
                     MapPut(sprites, Normalize(path),
                            SpriteOf(v.vals, texture_id, data_file, W, H)),
                     data_file, texture_id, W, H)

DataIn(data, name) == IF name \in DOMAIN data THEN Some(data[name]) ELSE None

\* a failed read_atlas_data: the textures loaded into egui so far stay counted
Failed(err, tex) == [ok |-> FALSE, err |-> err, next_texture |-> tex]

\* `for _ in 0..count { ... }`, one definition per `?` of the body: data
\* holds the .data files of the atlas directory, tex is the next TextureId.
\* ReadDataFiles reads the name, DataFileName the sprite count,
\* DataFileCount decodes the image, DataFileImage stores the image and its
\* texture and reads the sprites, DataFileSprites goes on
RECURSIVE ReadDataFiles(_, _, _, _, _, _, _)
RECURSIVE DataFileName(_, _, _, _, _, _, _)
RECURSIVE DataFileCount(_, _, _, _, _, _, _, _)
RECURSIVE DataFileImage(_, _, _, _, _, _, _, _, _)
RECURSIVE DataFileSprites(_, _, _, _, _, _, _)
ReadDataFiles(bytes, pos, n, atlas, data, tex, overflow_checks) ==
    IF n <= 0 THEN [ok |-> TRUE, atlas |-> atlas, next_texture |-> tex]
    ELSE DataFileName(read_string(bytes, pos), bytes, n, atlas, data, tex, overflow_checks)

DataFileName(data_file, bytes, n, atlas, data, tex, overflow_checks) ==
    IF ~data_file.ok THEN Failed(data_file.err, tex)
    ELSE DataFileCount(read_i16(bytes, data_file.pos), data_file.val, bytes, n,
                       [atlas EXCEPT !.data_files = Append(@, data_file.val)],
                       data, tex, overflow_checks)

DataFileCount(sprites_count, data_file, bytes, n, atlas, data, tex, overflow_checks) ==
    IF ~sprites_count.ok THEN Failed(sprites_count.err, tex)
    ELSE DataFileImage(load_data_file(DataIn(data, data_file), overflow_checks),
                       sprites_count, data_file, bytes, n, atlas, data, tex, overflow_checks)

DataFileImage(image, sprites_count, data_file, bytes, n, atlas, data, tex, overflow_checks) ==
    IF ~image.ok THEN Failed(image.err, tex)
    ELSE DataFileSprites(ReadSprites(bytes, sprites_count.pos, sprites_count.val,
                                     atlas.sprites, data_file, tex,
                                     image.val.width, image.val.height),
                         bytes, n,
                         [atlas EXCEPT !.images = MapPut(@, data_file, image.val),
                                       !.textures = MapPut(@, data_file, tex)],
                         data, tex + 1, overflow_checks)

DataFileSprites(sp, bytes, n, atlas, data, tex, overflow_checks) ==
    IF ~sp.ok THEN Failed(sp.err, tex)
    ELSE ReadDataFiles(bytes, sp.pos, n - 1, [atlas EXCEPT !.sprites = sp.sprites],
                       data, tex, overflow_checks)

\* read_meta_header: an i32, a string, an i32, all dropped
read_meta_header(bytes) ==
    LET sig == read_i32(bytes, 0)
        str == IF sig.ok THEN read_string(bytes, sig.pos) ELSE IoErr
    IN  IF str.ok THEN read_i32(bytes, str.pos) ELSE IoErr

read_atlas_data(bytes, pos, atlas, data, tex, overflow_checks) ==
    LET count == read_i16(bytes, pos)
    IN  IF ~count.ok THEN Failed(count.err, tex)
        ELSE ReadDataFiles(bytes, count.pos, count.val, atlas, data, tex, overflow_checks)

\* load_meta_file on an existing .meta file
load_meta_file(bytes, atlas, data, tex, overflow_checks) ==
    LET hdr == read_meta_header(bytes)
    IN  IF ~hdr.ok THEN Failed(hdr.err, tex)
        ELSE read_atlas_data(bytes, hdr.pos, atlas, data, tex, overflow_checks)

----------------------------------------------------------------------------
(* src/src/data/celeste_atlas.rs: load_atlas and the global sprite table *)

\* register_sprite_global(atlas_name, path, sprite): the table after it
register_sprite_global_KeepFirst(global, atlas_name, path, sprite) ==
    IF path \in DOMAIN global THEN global ELSE MapPut(global, path, <<atlas_name, sprite>>)

register_sprite_global(global, atlas_name, path, sprite) ==
    MapPut(global, path, <<atlas_name, sprite>>)

\* get_sprite_global(path)
get_sprite_global(global, path) ==
    IF path \in DOMAIN global THEN Some(global[path]) ELSE None

\* `for (path, sprite) in &atlas.sprites { register_sprite_global(..) }`:
\* the keys of a map are distinct, the order of the loop does not matter
RegisterAll(global, atlas) ==
    [p \in (DOMAIN global) \cup (DOMAIN atlas.sprites) |->
        IF p \in DOMAIN atlas.sprites
        THEN register_sprite_global(global, atlas.name, p, atlas.sprites[p])[p]
        ELSE global[p]]

\* `for texture in atlas.textures.values() { texture_id_to_atlas.insert(..) }`
MapTextures(ids, atlas) ==
    LET new == {atlas.textures[d] : d \in DOMAIN atlas.textures}
    IN  [t \in (DOMAIN ids) \cup new |-> IF t \in new THEN atlas.name ELSE ids[t]]

\* load_atlas after load_meta_file returned r: the `?`, then the texture-id
\* inserts, the registrations and atlases.insert; the result, and the
\* manager, table and texture counter after it
InsertAtlas_KeepsFailed(r, mgr, global, name) ==
    IF ~r.ok
    THEN [ok |-> FALSE, err |-> r.err,
          atlas_manager |-> [mgr EXCEPT !.atlases = MapPut(@, name, Atlas_new(name))],
          GLOBAL_SPRITE_MAP |-> global, next_texture |-> r.next_texture]
    ELSE [ok |-> TRUE, atlas |-> r.atlas,
          atlas_manager |->
              [atlases |-> MapPut(mgr.atlases, name, r.atlas),
               texture_id_to_atlas |-> MapTextures(mgr.texture_id_to_atlas, r.atlas)],
          GLOBAL_SPRITE_MAP |-> RegisterAll(global, r.atlas),
          next_texture |-> r.next_texture]

InsertAtlas(r, mgr, global, name) ==
    IF ~r.ok
    THEN [ok |-> FALSE, err |-> r.err, atlas_manager |-> mgr,
          GLOBAL_SPRITE_MAP |-> global, next_texture |-> r.next_texture]
    ELSE [ok |-> TRUE, atlas |-> r.atlas,
          atlas_manager |->
              [atlases |-> MapPut(mgr.atlases, name, r.atlas),
               texture_id_to_atlas |-> MapTextures(mgr.texture_id_to_atlas, r.atlas)],
          GLOBAL_SPRITE_MAP |-> RegisterAll(global, r.atlas),
          next_texture |-> r.next_texture]

\* load_atlas(name, celeste_dir, ctx) on the files `dir` of the install
\* directory
load_atlas(mgr, global, dir, name, tex, overflow_checks) ==
    IF name \notin DOMAIN dir.meta
    THEN [ok |-> FALSE, err |-> "not found", atlas_manager |-> mgr,
          GLOBAL_SPRITE_MAP |-> global, next_texture |-> tex]
    ELSE InsertAtlas(load_meta_file(dir.meta[name], Atlas_new(name), dir.data, tex,
                                    overflow_checks),
                     mgr, global, name)

\* src/src/assets.rs: is_valid_celeste_dir, for the directories of this model
is_valid_celeste_dir(path) == path \in Dirs

\* src/src/assets.rs: the bounds test of extract_sprite_image (i16
\* arithmetic, the image size cast to i16; sizes here are far below 2^15)
SpriteInBounds(meta, image) ==
    ~(\/ meta.x < 0 \/ meta.y < 0
      \/ meta.x + meta.width > image.width
      \/ meta.y + meta.height > image.height)

MaxTextures == 3

MaxLoads == 3

\* atlas_manager.load_atlas(name, celeste_dir, ctx)
LoadAtlas(name) ==
    /\ celeste_dir.some
    /\ next_texture < MaxTextures
    /\ Len(history) < MaxLoads
    /\ \E overflow_checks \in BOOLEAN :
          \E r \in {load_atlas(atlas_manager, GLOBAL_SPRITE_MAP, disk[celeste_dir.val], name,
                                next_texture, overflow_checks)} :
              /\ atlas_manager' = r.atlas_manager
              /\ GLOBAL_SPRITE_MAP' = r.GLOBAL_SPRITE_MAP
              /\ next_texture' = r.next_texture
              /\ atlas_ret' = [made |-> TRUE, name |-> name, ok |-> r.ok,
                               before |-> [atlas_manager |-> atlas_manager,
                                           GLOBAL_SPRITE_MAP |-> GLOBAL_SPRITE_MAP,
                                           next_texture |-> next_texture]]
              /\ history' = IF r.ok
                            THEN Append(history, [name |-> name, sprites |-> r.atlas.sprites])
                            ELSE history
    /\ UNCHANGED <<installVars, texture_cache, saved_path, loaded, buffer>>
    /\ UNCHANGED <<tileVars, editorVars>>

\* CelesteAssets::set_celeste_dir(path)
SetCelesteDir(path) ==
    /\ IF is_valid_celeste_dir(path)
       THEN /\ celeste_dir' = Some(path)
            /\ texture_cache' = {}
            /\ atlas_manager' = AtlasManager_new
            /\ saved_path' = Some(path)
       ELSE UNCHANGED <<celeste_dir, texture_cache, atlas_manager, saved_path>>
    /\ UNCHANGED <<disk, layout, GLOBAL_SPRITE_MAP, next_texture, atlas_ret, history,
                   loaded, buffer>>
    /\ UNCHANGED <<tileVars, editorVars>>

----------------------------------------------------------------------------
(* The atlas files the specifications start from *)

MaxSprites == 2

AtlasNames == {"Gameplay", "Gui"}

\* data file names "t", "u", "v", "w" and sprite paths "a", "d\a", "d/a"
NameU == <<117>>
NameV == <<118>>
NameW == <<119>>
PathA == <<97>>
PathDBackA == <<100, 92, 97>>
PathDSlashA == <<100, 47, 97>>

Opaque == <<30, 20, 10, 255>>

\* the .data files of an install directory: t is 2x2, u is 1x1, v breaks off
\* after its first pixel, w does not exist
DataDir ==
    [n \in {NameT, NameU, NameV} |->
        CASE n = NameT -> DataFile(2, 2, FALSE, <<[rep |-> 4, rgba |-> Opaque]>>)
          [] n = NameU -> DataFile(1, 1, FALSE, <<[rep |-> 1, rgba |-> Opaque]>>)
          [] n = NameV -> DataFile(2, 2, FALSE, <<[rep |-> 1, rgba |-> Opaque]>>)]

\* the eight values of a sprite record: inside a 1x1 image, inside a 2x2
\* image with a negative offset, reaching past a 2x2 image
RectUnit == <<0, 0, 1, 1, 0, 0, 1, 1>>

Rects == {RectUnit, <<1, 0, 1, 2, -1, 0, 2, 2>>, <<1, 1, 2, 2, 0, 0, 2, 2>>}

Records == [path : {PathA, PathDBackA, PathDSlashA}, v : Rects]

RecordBytes(r) == Str(r.path) \o Flatten([i \in 1..8 |-> I16LE(r.v[i])])

EntryBytes(e) ==
    Str(e.name) \o I16LE(Len(e.sprites))
        \o Flatten([i \in 1..Len(e.sprites) |-> RecordBytes(e.sprites[i])])

\* a .meta file: the header, the count of data files, the data files
MetaFile(entries) ==
    I32LE(7) \o Str(<<120>>) \o I32LE(1) \o I16LE(Len(entries))
        \o Flatten([i \in 1..Len(entries) |-> EntryBytes(entries[i])])

\* one data file with up to MaxSprites records, or two data files with one
\* record each
Layouts ==
    {<<>>}
    \cup {<<[name |-> n, sprites |-> sp]>> :
              n \in {NameT, NameU, NameV, NameW}, sp \in SeqsUpTo(Records, MaxSprites)}
    \cup {<<[name |-> NameT, sprites |-> <<r1>>], [name |-> n, sprites |-> <<r2>>]>> :
              n \in {NameT, NameU, NameV, NameW},
              r1 \in {r \in Records : r.v = RectUnit}, r2 \in Records}

\* a layout of two data files, written whole and cut after each of its bytes
CutLayout ==
    <<[name |-> NameT, sprites |-> <<[path |-> PathA, v |-> RectUnit]>>],
      [name |-> NameU, sprites |-> <<[path |-> PathDBackA, v |-> RectUnit]>>]>>

\* what a Gameplay.meta is written from: the layout and the bytes kept
Written ==
    {[entries |-> l, len |-> Len(MetaFile(l))] : l \in Layouts}
    \cup {[entries |-> CutLayout, len |-> k] : k \in 0..(Len(MetaFile(CutLayout)) - 1)}

WrittenBytes(wr) == SubSeq(MetaFile(wr.entries), 1, wr.len)

\* the Gui atlas: the data file u with the sprite "a"
GuiMeta == MetaFile(<<[name |-> NameU,
                       sprites |-> <<[path |-> PathA, v |-> RectUnit]>>]>>)

----------------------------------------------------------------------------
(* SpecMeta: load_atlas on every Gameplay.meta of Written, beside a Gui    *)
(* atlas that loads, and on a name without a .meta file                    *)

InitMeta ==
    /\ TilesIdle
    /\ celeste_dir = Some("d1")
    /\ \E wr \in Written :
          /\ layout = Some(wr)
          /\ disk = [d \in Dirs |->
                        IF d = "d1"
                        THEN [meta |-> [n \in AtlasNames |->
                                           IF n = "Gameplay" THEN WrittenBytes(wr) ELSE GuiMeta],
                              data |-> DataDir]
                        ELSE NoAtlasFiles]
    /\ RegistryNew
    /\ loaded = NoCall
    /\ buffer = None
    /\ EditorIdle

NextMeta == \E name \in AtlasNames \cup {"Misc"} : LoadAtlas(name)

SpecMeta == InitMeta /\ [][NextMeta]_vars

----------------------------------------------------------------------------
(* Claims on load_atlas and read_atlas_data *)

\* C16: a load_atlas call that returns an error (the .meta file is absent or
\* breaks off, a .data file is absent or breaks off, the last one included)
\* leaves the manager's atlas map, its texture-id map and the global sprite
\* table as they were before the call.
C16_FailedLoadChangesNothing ==
    (atlas_ret.made /\ ~atlas_ret.ok) =>
        /\ atlas_manager.atlases = atlas_ret.before.atlas_manager.atlases
        /\ atlas_manager.texture_id_to_atlas = atlas_ret.before.atlas_manager.texture_id_to_atlas
        /\ GLOBAL_SPRITE_MAP = atlas_ret.before.GLOBAL_SPRITE_MAP

\* a load that fails on its second .data file, its first one decoded and
\* uploaded, in a manager that already holds an atlas
C16_Witness ==
    /\ atlas_ret.made /\ ~atlas_ret.ok
    /\ next_texture > atlas_ret.before.next_texture
    /\ DOMAIN atlas_manager.atlases # {}
    /\ DOMAIN GLOBAL_SPRITE_MAP # {}

\* the sprite records a layout declares, in file order, each with the name
\* of its data file
RECURSIVE RecordsOf(_)
RecordsOf(entries) ==
    IF entries = <<>> THEN <<>>
    ELSE LET e == Head(entries)
         IN  [i \in 1..Len(e.sprites) |->
                 [path |-> e.sprites[i].path, v |-> e.sprites[i].v, data_file |-> e.name]]
             \o RecordsOf(Tail(entries))

\* the Gameplay atlas as the manager holds it, and the records its .meta
\* file was written from
GameplayLoaded == layout.some /\ "Gameplay" \in DOMAIN atlas_manager.atlases

Gameplay == atlas_manager.atlases["Gameplay"]

GameplayRecords == RecordsOf(layout.val.entries)

DistinctPaths(recs) ==
    \A i, j \in 1..Len(recs) : i # j => recs[i].path # recs[j].path

DistinctNormalizedPaths(recs) ==
    \A i, j \in 1..Len(recs) : i # j => Normalize(recs[i].path) # Normalize(recs[j].path)

\* the atlas holds one sprite per record, under the record's path with
\* every backslash turned into a slash, with the record's eight values in
\* file order and the UV rectangle (x/W, y/H)-((x+w)/W, (y+h)/H)
OneSpritePerRecord(atlas, recs) ==
    /\ Cardinality(DOMAIN atlas.sprites) = Len(recs)
    /\ \A i \in 1..Len(recs) :
          LET r == recs[i]
              key == [k \in 1..Len(r.path) |-> IF r.path[k] = 92 THEN 47 ELSE r.path[k]]
              W == atlas.images[r.data_file].width
              H == atlas.images[r.data_file].height
          IN  /\ key \in DOMAIN atlas.sprites
              /\ atlas.sprites[key].metadata =
                     [x |-> r.v[1], y |-> r.v[2], width |-> r.v[3], height |-> r.v[4],
                      offset_x |-> r.v[5], offset_y |-> r.v[6],
                      real_width |-> r.v[7], real_height |-> r.v[8]]
              /\ atlas.sprites[key].data_file = r.data_file
              /\ atlas.sprites[key].uv_rect =
                     Some([min |-> <<[num |-> r.v[1], den |-> W], [num |-> r.v[2], den |-> H]>>,
                           max |-> <<[num |-> r.v[1] + r.v[3], den |-> W],
                                     [num |-> r.v[2] + r.v[4], den |-> H]>>])

\* C19: every sprite of a loaded atlas has its pixel rectangle (x, y, width,
\* height) inside the image of its data file, whatever .meta file load_atlas
\* accepted.
C19_SpriteInsideImage ==
    \A n \in DOMAIN atlas_manager.atlases :
        LET atlas == atlas_manager.atlases[n]
        IN  \A p \in DOMAIN atlas.sprites :
                SpriteInBounds(atlas.sprites[p].metadata,
                               atlas.images[atlas.sprites[p].data_file])

\* C20 as stated: for a .meta file whose sprite records have distinct paths,
\* read_atlas_data yields one sprite per record, keyed by the normalised
\* path, with the eight values in order and the UV rectangle computed from
\* them.
C20_Original ==
    (GameplayLoaded /\ DistinctPaths(GameplayRecords))
        => OneSpritePerRecord(Gameplay, GameplayRecords)

\* C20, amended: the same for a .meta file whose sprite records have paths
\* that stay distinct once every backslash is turned into a slash.
C20_OneSpritePerRecord ==
    (GameplayLoaded /\ DistinctNormalizedPaths(GameplayRecords))
        => OneSpritePerRecord(Gameplay, GameplayRecords)

\* two records in two data files, one path with a backslash, one rectangle
\* with distinct values and a negative offset
C20_Witness ==
    /\ GameplayLoaded /\ DistinctNormalizedPaths(GameplayRecords)
    /\ Len(GameplayRecords) = 2
    /\ GameplayRecords[1].data_file # GameplayRecords[2].data_file
    /\ \E i \in 1..2 : GameplayRecords[i].path = PathDBackA
    /\ \E i \in 1..2 : GameplayRecords[i].v = <<1, 0, 1, 2, -1, 0, 2, 2>>

----------------------------------------------------------------------------
(* SpecAtlas: loads and reloads of the Gameplay and Gui atlases, and       *)
(* set_celeste_dir between two install directories with different files    *)

RectTall == <<1, 0, 1, 2, -1, 0, 2, 2>>

\* "a" in t; "d/a" (written "d\a") in u; "a" and "d/a" in t; a file that
\* breaks off inside its sprite record
AtlasMetas ==
    {MetaFile(<<[name |-> NameT, sprites |-> <<[path |-> PathA, v |-> RectUnit]>>]>>),
     MetaFile(<<[name |-> NameU, sprites |-> <<[path |-> PathDBackA, v |-> RectUnit]>>]>>),
     MetaFile(<<[name |-> NameT, sprites |-> <<[path |-> PathA, v |-> RectTall],
                                               [path |-> PathDSlashA, v |-> RectUnit]>>]>>),
     SubSeq(GuiMeta, 1, Len(GuiMeta) - 1)}

AtlasDirs ==
    {[meta |-> [n \in AtlasNames |-> IF n = "Gameplay" THEN gameplay ELSE GuiMeta],
      data |-> DataDir] : gameplay \in AtlasMetas}

InitAtlas ==
    /\ TilesIdle
    /\ celeste_dir = Some("d1")
    /\ disk \in [Dirs -> AtlasDirs]
    /\ layout = None
    /\ atlas_manager = AtlasManager_new
    /\ GLOBAL_SPRITE_MAP = EmptyMap
    /\ next_texture = 0
    /\ atlas_ret = NoCall
    /\ history = <<>>
    /\ texture_cache = {"decals/a"}
    /\ saved_path = None
    /\ loaded = NoCall
    /\ buffer = None
    /\ EditorIdle

NextAtlas ==
    \/ \E name \in AtlasNames : LoadAtlas(name)
    \/ \E path \in Dirs \cup {"elsewhere"} : SetCelesteDir(path)

SpecAtlas == InitAtlas /\ [][NextAtlas]_vars

\* C17: after any sequence of loads, reloads and set_celeste_dir calls, every
\* entry path -> (atlas name, sprite) of the global sprite table is a sprite
\* the manager's atlas of that name holds under that path.
C17_TableMatchesAtlases ==
    \A path \in DOMAIN GLOBAL_SPRITE_MAP :
        LET name == GLOBAL_SPRITE_MAP[path][1]
        IN  /\ name \in DOMAIN atlas_manager.atlases
            /\ path \in DOMAIN atlas_manager.atlases[name].sprites
            /\ atlas_manager.atlases[name].sprites[path] = GLOBAL_SPRITE_MAP[path][2]

\* the sprite paths a lookup is made with
LookupPaths == {PathA, PathDSlashA, PathDBackA, <<98>>}

\* the last successful load whose atlas held the path, 0 if there is none
LastLoadWith(path) ==
    LET with == {i \in 1..Len(history) : path \in DOMAIN history[i].sprites}
    IN  IF with = {} THEN 0 ELSE CHOOSE i \in with : \A j \in with : j <= i

\* C18: get_sprite_global(path) returns the atlas name and the sprite of the
\* most recent successful load_atlas whose atlas held the path, and nothing
\* for a path no loaded atlas ever held.
C18_LastWriterWins ==
    \A path \in LookupPaths :
        LET i == LastLoadWith(path)
        IN  get_sprite_global(GLOBAL_SPRITE_MAP, path) =
                IF i = 0 THEN None
                ELSE Some(<<history[i].name, history[i].sprites[path]>>)

\* "a" was loaded with the Gameplay atlas and then with the Gui atlas, as a
\* different sprite, while "d/a" still comes from the Gameplay atlas
C18_Witness ==
    /\ Len(history) >= 2
    /\ \E i \in 1..Len(history) :
          /\ i < LastLoadWith(PathA)
          /\ PathA \in DOMAIN history[i].sprites
          /\ history[i].name # history[LastLoadWith(PathA)].name
          /\ history[i].sprites[PathA] # history[LastLoadWith(PathA)].sprites[PathA]
    /\ get_sprite_global(GLOBAL_SPRITE_MAP, PathA).some
    /\ get_sprite_global(GLOBAL_SPRITE_MAP, PathDSlashA).some
    /\ get_sprite_global(GLOBAL_SPRITE_MAP, PathDSlashA).val[1]
           # get_sprite_global(GLOBAL_SPRITE_MAP, PathA).val[1]

\* what draw_sprite_region (and the fallback of draw_sprite) does with a
\* sprite of texture `id`: both lookups return early on None, the search
\* through atlas.textures is unwrapped
draw_sprite_region(mgr, id) ==
    IF id \notin DOMAIN mgr.texture_id_to_atlas THEN "return"
    ELSE IF mgr.texture_id_to_atlas[id] \notin DOMAIN mgr.atlases THEN "return"
    ELSE IF \E d \in DOMAIN mgr.atlases[mgr.texture_id_to_atlas[id]].textures :
                mgr.atlases[mgr.texture_id_to_atlas[id]].textures[d] = id
         THEN "drawn"
         ELSE "panic"

\* C26: after any sequence of load_atlas calls, reloads of the same name
\* included, every entry texture id -> atlas name of texture_id_to_atlas
\* names a registered atlas that holds a texture with that id, so that the
\* unwrap of draw_sprite and draw_sprite_region never panics for a sprite of
\* any texture id handed out so far.
C26_TextureIdsMatchAtlases ==
    /\ \A id \in DOMAIN atlas_manager.texture_id_to_atlas :
          LET name == atlas_manager.texture_id_to_atlas[id]
          IN  /\ name \in DOMAIN atlas_manager.atlases
              /\ \E d \in DOMAIN atlas_manager.atlases[name].textures :
                    atlas_manager.atlases[name].textures[d] = id
    /\ \A id \in 0..(next_texture - 1) :
          draw_sprite_region(atlas_manager, id) # "panic"

----------------------------------------------------------------------------
(* src/src/xnb_reader.rs: read_texture.  A stream is the sequence of its   *)
(* bytes; an error is [ok |-> FALSE, err |-> kind], kind one of "io"       *)
(* (XnbError::IoError), "invalid format", "unsupported feature".           *)

InvalidFormat == [ok |-> FALSE, err |-> "invalid format"]
UnsupportedFeature == [ok |-> FALSE, err |-> "unsupported feature"]

\* the largest width and height read_texture_data accepts
MaxTextureDim == 16384

\* read_u32::<LittleEndian>.  A value of 2^31 or more is kept as 2^31 - 1:
\* the reader only compares it with numbers up to 2^30 and with the length
\* of a stream, which is far shorter
read_u32(bytes, pos) ==
    IF pos + 4 > Len(bytes) THEN IoErr
    ELSE [ok |-> TRUE,
          val |-> IF bytes[pos + 4] >= 128 THEN 2147483647
                  ELSE bytes[pos + 1] + 256 * bytes[pos + 2] + 65536 * bytes[pos + 3]
                       + 16777216 * bytes[pos + 4],
          pos |-> pos + 4]

\* TextureFormat::from(i32)
TextureFormat_from(value) ==
    IF value = 0 THEN "Color"
    ELSE IF value = 4 THEN "Dxt1"
    ELSE IF value = 12 THEN "Alpha8"
    ELSE IF value \in 1..19 THEN "other"
    ELSE "Unknown"

\* parse_header: the magic, platform, version and flag bytes and the file
\* size are read before the flag is looked at
parse_header(bytes) ==
    IF Len(bytes) < 3 THEN IoErr
    ELSE IF SubSeq(bytes, 1, 3) # <<88, 78, 66>> THEN InvalidFormat
    ELSE IF ~read_u8(bytes, 3).ok \/ ~read_u8(bytes, 4).ok \/ ~read_u8(bytes, 5).ok THEN IoErr
    ELSE IF ~read_u32(bytes, 6).ok THEN IoErr
    ELSE IF bytes[6] >= 128 THEN UnsupportedFeature
    ELSE [ok |-> TRUE, pos |-> 10]

\* the loop of skip_readers_and_resources with n type readers left, then the
\* shared resources count
RECURSIVE SkipReaders(_, _, _)
SkipReaders(bytes, pos, n) ==
    IF n = 0
    THEN IF read_u8(bytes, pos).ok THEN [ok |-> TRUE, pos |-> pos + 1] ELSE IoErr
    ELSE IF ~read_string(bytes, pos).ok THEN IoErr
    ELSE IF ~read_i32(bytes, read_string(bytes, pos).pos).ok THEN IoErr
    ELSE SkipReaders(bytes, read_string(bytes, pos).pos + 4, n - 1)

\* skip_readers_and_resources: the count is an i8 cast to u32, so that a
\* byte of 128 or more asks for more than 2^32 - 129 readers; each reader
\* takes five bytes or more, and Len(bytes) readers already run past the end
skip_readers_and_resources(bytes, pos) ==
    IF ~read_u8(bytes, pos).ok THEN IoErr
    ELSE SkipReaders(bytes, pos + 1,
                     IF bytes[pos + 1] >= 128 THEN Len(bytes) ELSE bytes[pos + 1])

\* decode_format_color: four bytes a, b, g, r per pixel become [r, g, b, a]
decode_format_color(data, width, height) ==
    IF Len(data) # width * height * 4 THEN InvalidFormat
    ELSE [ok |-> TRUE,
          image |-> [width |-> width, height |-> height,
                     pixels |-> [i \in 1..(width * height) |->
                                    <<data[4 * i], data[4 * i - 1], data[4 * i - 2],
                                      data[4 * i - 3]>>]]]

\* read_texture_data from offset pos
read_texture_data(bytes, pos) ==
    LET format == TextureFormat_from(read_i32(bytes, pos + 1).val)
        width == read_u32(bytes, pos + 5).val
        height == read_u32(bytes, pos + 9).val
        data_size == read_u32(bytes, pos + 17).val
    IN  IF ~read_u8(bytes, pos).ok THEN IoErr
        ELSE IF bytes[pos + 1] # 1 THEN InvalidFormat
        ELSE IF ~read_u32(bytes, pos + 9).ok THEN IoErr
        ELSE IF width = 0 \/ height = 0 \/ width > MaxTextureDim \/ height > MaxTextureDim
             THEN InvalidFormat
        ELSE IF ~read_u32(bytes, pos + 17).ok THEN IoErr
        ELSE IF data_size < (IF format = "Color" THEN width * height * 4 ELSE width * height)
             THEN InvalidFormat
        ELSE IF pos + 21 + data_size > Len(bytes) THEN IoErr
        ELSE IF format = "Color"
             THEN decode_format_color(SubSeq(bytes, pos + 22, pos + 21 + data_size),
                                      width, height)
        ELSE UnsupportedFeature

\* read_texture after parse_header returned h, after
\* skip_readers_and_resources returned s
ReadTextureParsed(h, bytes) ==
    IF ~h.ok THEN h ELSE skip_readers_and_resources(bytes, h.pos)

ReadTextureSkipped(s, bytes) ==
    IF ~s.ok THEN s ELSE read_texture_data(bytes, s.pos)

read_texture(bytes) ==
    ReadTextureSkipped(ReadTextureParsed(parse_header(bytes), bytes), bytes)

\* the streams: a u32 below 65536 as four bytes, and an XNB file written
\* from a shape [flag, readers, type, format, width, height, size]: magic,
\* platform 'w', version 5, the flag byte, a file size, `readers` type
\* readers named "T", no shared resource, one object of the given type,
\* format, dimensions, one mipmap, and `size` bytes of data
U32(n) == <<n % 256, (n \div 256) % 256, 0, 0>>

XnbData(n) == [i \in 1..n |-> i]

XnbWritten(shape) ==
    <<88, 78, 66, 119, 5, shape.flag>> \o U32(0)
    \o <<shape.readers>>
    \o (IF shape.readers = 1 THEN <<1, 84>> \o U32(0) ELSE <<>>)
    \o <<0>>
    \o <<shape.type>> \o U32(shape.format) \o U32(shape.width) \o U32(shape.height)
    \o U32(1) \o U32(shape.size) \o XnbData(shape.size)

XnbDims == {<<1, 1>>, <<2, 1>>, <<4, 4>>, <<0, 1>>}

XnbShapes ==
    {[flag |-> flag, readers |-> readers, type |-> type, format |-> format,
      width |-> dim[1], height |-> dim[2], size |-> size] :
        flag \in {0, 1, 128}, readers \in {0, 1}, type \in {0, 1},
        format \in {0, 4, 12, 99}, dim \in XnbDims,
        size \in {0, 4, 8, 16, 64}}

\* a 1x1 Color texture behind a compressed header, and a 4x4 Dxt1 texture
XnbCompressed ==
    [flag |-> 128, readers |-> 1, type |-> 1, format |-> 0, width |-> 1, height |-> 1,
     size |-> 4]

XnbDxt1 ==
    [flag |-> 0, readers |-> 1, type |-> 1, format |-> 4, width |-> 4, height |-> 4,
     size |-> 8]

\* the complete files, and the prefixes of two of them down to the magic and
\* two bytes
MaxCut == 38

XnbFiles ==
    {[shape |-> shape, cut |-> 0] : shape \in XnbShapes}
    \cup {[shape |-> shape, cut |-> cut] :
            shape \in {XnbCompressed, XnbDxt1}, cut \in 1..MaxCut}

XnbStream(file) ==
    SubSeq(XnbWritten(file.shape), 1, Len(XnbWritten(file.shape)) - file.cut)

\* XnbReader::new(stream).read_texture()
ReadTexture ==
    /\ ~xnb_ret.made
    /\ xnb_ret' = [made |-> TRUE, file |-> xnb_ret.file,
                   ret |-> read_texture(XnbStream(xnb_ret.file))]
    /\ UNCHANGED <<editor, world, op>>
    /\ UNCHANGED <<tileVars, atlasVars>>

InitXnb ==
    /\ TilesIdle
    /\ AtlasUnused
    /\ EditorNew
    /\ world = NoWorld
    /\ xnb_ret \in {[made |-> FALSE, file |-> file] : file \in XnbFiles}

NextXnb == ReadTexture

SpecXnb == InitXnb /\ [][NextXnb]_vars

\* C23: on a stream that starts with the magic "XNB", read_texture fails
\* with an unsupported-feature error whenever the flag byte has 0x80 set or
\* the texture format is not Color, and returns no image then.
C23_UnsupportedFailsFast ==
    (/\ xnb_ret.made
     /\ \/ xnb_ret.file.shape.flag >= 128
        \/ xnb_ret.file.shape.format # 0)
    => xnb_ret.ret = UnsupportedFeature

\* a complete Dxt1 file is rejected as malformed
C23_Dxt1Malformed ==
    /\ xnb_ret.made
    /\ xnb_ret.file = [shape |-> XnbDxt1, cut |-> 0]
    /\ xnb_ret.ret = InvalidFormat

\* no image comes out of a compressed or non-Color file
C23_NoImage ==
    (/\ xnb_ret.made
     /\ \/ xnb_ret.file.shape.flag >= 128
        \/ xnb_ret.file.shape.format # 0)
    => ~xnb_ret.ret.ok

----------------------------------------------------------------------------
(* serde_json::Value, as far as the editor uses it.  A value carries its   *)
(* kind in t; a string is the sequence of its chars, a number an integer,  *)
(* an array a sequence, an object a function from its keys.                *)

JNull == [t |-> "null"]
JStr(chars) == [t |-> "str", v |-> chars]
JNum(n) == [t |-> "num", v |-> n]
JArr(seq) == [t |-> "arr", v |-> seq]
JObj(map) == [t |-> "obj", v |-> map]

\* value[key], the Index impl for &str: Null for a missing key and for a
\* value that is no object
Index(value, key) ==
    IF value.t = "obj" /\ key \in DOMAIN value.v THEN value.v[key] ELSE JNull

as_array(value) == IF value.t = "arr" THEN Some(value.v) ELSE None
as_str(value) == IF value.t = "str" THEN Some(value.v) ELSE None
as_f64(value) == IF value.t = "num" THEN Some(value.v) ELSE None
as_i64(value) == IF value.t = "num" THEN Some(value.v) ELSE None

\* value[key] in a place expression, the IndexMut impl for &str: Null turns
\* into an empty object, a missing key is inserted with Null, any other
\* kind of value panics
IndexMutPanics(value) == value.t \notin {"obj", "null"}

IndexMutInserted(value, key) ==
    IF value.t = "null" THEN JObj(MapPut(EmptyMap, key, JNull))
    ELSE IF key \in DOMAIN value.v THEN value
    ELSE JObj(MapPut(value.v, key, JNull))

\* the names the code compares with
Str_levels == <<"l", "e", "v", "e", "l", "s">>
Str_level == <<"l", "e", "v", "e", "l">>
Str_solids == <<"s", "o", "l", "i", "d", "s">>

----------------------------------------------------------------------------
(* src/src/app/mod.rs: the accessors of the level tree.  Indexes are       *)
(* 0-based as in the code; sequences are 1-based.                          *)

\* the children of the first child named "levels" (get_current_level breaks
\* after it), None if there is none or it has no children array
FirstLevels(children) ==
    LET named == {i \in 1..Len(children) : Index(children[i], "__name") = JStr(Str_levels)}
    IN  IF named = {} THEN None
        ELSE as_array(Index(children[CHOOSE i \in named : \A j \in named : i <= j],
                            "__children"))

\* the levels container get_current_level looks into
LevelsContainer(map_data) ==
    IF ~map_data.some THEN None
    ELSE IF ~as_array(Index(map_data.val, "__children")).some THEN None
    ELSE FirstLevels(Index(map_data.val, "__children").v)

\* get_current_level
get_current_level(ed) ==
    IF ~LevelsContainer(ed.map_data).some THEN None
    ELSE IF ed.current_level_index < Len(LevelsContainer(ed.map_data).val)
         THEN Some(LevelsContainer(ed.map_data).val[ed.current_level_index + 1])
    ELSE None

\* the first child named "solids" of a children array, 0 if there is none
FirstSolids(children) ==
    LET named == {i \in 1..Len(children) : Index(children[i], "__name") = JStr(Str_solids)}
    IN  IF named = {} THEN 0 ELSE CHOOSE i \in named : \A j \in named : i <= j

\* get_solids_data, from the level get_current_level returned
SolidsOf(level) ==
    IF ~level.some THEN None
    ELSE IF ~as_array(Index(level.val, "__children")).some THEN None
    ELSE IF FirstSolids(Index(level.val, "__children").v) = 0 THEN None
    ELSE as_str(Index(Index(level.val, "__children").v[
                          FirstSolids(Index(level.val, "__children").v)], "innerText"))

get_solids_data(ed) == SolidsOf(get_current_level(ed))

\* the names extract_level_names pushes for one levels array: the name of
\* every node named "level" that has a string `name`
RECURSIVE LevelNames(_)
LevelNames(levels) ==
    IF levels = <<>> THEN <<>>
    ELSE (IF /\ Index(Head(levels), "__name") = JStr(Str_level)
             /\ as_str(Index(Head(levels), "name")).some
          THEN <<Index(Head(levels), "name").v>> ELSE <<>>)
         \o LevelNames(Tail(levels))

\* the loop over the root's children: every child named "levels" that has a
\* children array contributes
RECURSIVE ChildrenLevelNames(_)
ChildrenLevelNames(children) ==
    IF children = <<>> THEN <<>>
    ELSE (IF /\ Index(Head(children), "__name") = JStr(Str_levels)
             /\ as_array(Index(Head(children), "__children")).some
          THEN LevelNames(Index(Head(children), "__children").v) ELSE <<>>)
         \o ChildrenLevelNames(Tail(children))

\* extract_level_names: the new level_names
extract_level_names(map_data) ==
    IF ~map_data.some THEN <<>>
    ELSE IF ~as_array(Index(map_data.val, "__children")).some THEN <<>>
    ELSE ChildrenLevelNames(Index(map_data.val, "__children").v)

----------------------------------------------------------------------------
(* The map files.  A .bin file is kept as the tree the converter makes of  *)
(* it; a path is [dir, stem].                                              *)

Solids(text, offsetX, offsetY) ==
    JObj("__name" :> JStr(Str_solids) @@ "innerText" :> JStr(text)
         @@ "offsetX" :> JNum(offsetX) @@ "offsetY" :> JNum(offsetY))

\* a level of 16 x 8 pixels at pixel (x, y)
Level(name, x, y, children) ==
    JObj("__name" :> JStr(Str_level) @@ "name" :> JStr(name)
         @@ "x" :> JNum(x) @@ "y" :> JNum(y) @@ "width" :> JNum(16) @@ "height" :> JNum(8)
         @@ "__children" :> JArr(children))

\* the same without the `name` attribute
UnnamedLevel(x, y, children) ==
    JObj("__name" :> JStr(Str_level)
         @@ "x" :> JNum(x) @@ "y" :> JNum(y) @@ "width" :> JNum(16) @@ "height" :> JNum(8)
         @@ "__children" :> JArr(children))

Element(name, children) == JObj("__name" :> JStr(name) @@ "__children" :> JArr(children))

\* an element without children, such as Style
Leaf(name) == JObj("__name" :> JStr(name))

MapRoot(children) == Element(<<"M", "a", "p">>, children)

Str_Filler == <<"F", "i", "l", "l", "e", "r">>
Str_Style == <<"S", "t", "y", "l", "e">>

Row00 == <<"0", "0">>
Row01 == <<"0", "1">>

\* two levels a and b, b one room to the right of a; one level c;
\* an unnamed level, a non-level node and the level d
PlainMap ==
    MapRoot(<<Element(Str_levels, <<Level(<<"a">>, 0, 0, <<Solids(Row01, 0, 0)>>),
                                    Level(<<"b">>, 16, 0, <<Solids(Row00, 0, 0)>>)>>),
              Leaf(Str_Style)>>)

SmallMap ==
    MapRoot(<<Element(Str_levels, <<Level(<<"c">>, 0, 0, <<Solids(Row01, 0, 0)>>)>>)>>)

OddMap ==
    MapRoot(<<Element(Str_levels, <<UnnamedLevel(0, 0, <<Solids(Row00, 0, 0)>>),
                                    Leaf(Str_Filler),
                                    Level(<<"d">>, 16, 0, <<Solids(Row00, 0, 0)>>)>>)>>)

BinPath(stem) == [dir |-> "maps", stem |-> stem]

\* get_temp_json_path: the file stem, "_temp.json", in the temp directory
get_temp_json_path(bin_path) == [dir |-> "tmp", stem |-> bin_path.stem \o "_temp"]

MapFiles == BinPath("plain") :> PlainMap @@ BinPath("small") :> SmallMap

\* the paths typed into or picked in the Open dialog, and chosen in Save As
DialogPaths == {BinPath("plain"), BinPath("small"), BinPath("new")}
SaveAsPaths == {BinPath("new")}

\* what `cairn bin2json bin_path temp_json_path` can come to: the command
\* cannot be spawned, exits with a failure, or exits with success and leaves
\* no file, a file that is no JSON, or the JSON of the .bin file
Bin2JsonRuns(bins, bin_path) ==
    {[status |-> "spawn error", temp |-> "missing", tree |-> JNull],
     [status |-> "failure", temp |-> "missing", tree |-> JNull],
     [status |-> "success", temp |-> "missing", tree |-> JNull],
     [status |-> "success", temp |-> "garbage", tree |-> JNull]}
    \cup (IF bin_path \in DOMAIN bins
          THEN {[status |-> "success", temp |-> "json", tree |-> bins[bin_path]]}
          ELSE {})

\* load_map(editor, bin_path) with the converter run `run`: the editor after
load_map_PathsFirst(ed, bin_path, run) ==
    IF run.status = "spawn error"
    THEN [ed EXCEPT !.bin_path = Some(bin_path),
                    !.temp_json_path = Some(get_temp_json_path(bin_path)),
                    !.error_message = Some("Failed to execute Cairn command")]
    ELSE IF run.status = "failure"
    THEN [ed EXCEPT !.bin_path = Some(bin_path),
                    !.temp_json_path = Some(get_temp_json_path(bin_path)),
                    !.error_message = Some("Failed to convert BIN to JSON")]
    ELSE IF run.temp = "missing"
    THEN [ed EXCEPT !.bin_path = Some(bin_path),
                    !.temp_json_path = Some(get_temp_json_path(bin_path)),
                    !.error_message = Some("Failed to open temporary JSON file")]
    ELSE IF run.temp = "garbage"
    THEN [ed EXCEPT !.bin_path = Some(bin_path),
                    !.temp_json_path = Some(get_temp_json_path(bin_path)),
                    !.error_message = Some("Failed to parse JSON")]
    ELSE [ed EXCEPT !.map_data = Some(run.tree),
                    !.bin_path = Some(bin_path),
                    !.temp_json_path = Some(get_temp_json_path(bin_path)),
                    !.level_names = extract_level_names(Some(run.tree)),
                    !.error_message = None]

load_map(ed, bin_path, run) ==
    IF run.status = "spawn error"
    THEN [ed EXCEPT !.error_message = Some("Failed to execute Cairn command")]
    ELSE IF run.status = "failure"
    THEN [ed EXCEPT !.error_message = Some("Failed to convert BIN to JSON")]
    ELSE IF run.temp = "missing"
    THEN [ed EXCEPT !.error_message = Some("Failed to open temporary JSON file")]
    ELSE IF run.temp = "garbage"
    THEN [ed EXCEPT !.error_message = Some("Failed to parse JSON")]
    ELSE [ed EXCEPT !.map_data = Some(run.tree),
                    !.bin_path = Some(bin_path),
                    !.temp_json_path = Some(get_temp_json_path(bin_path)),
                    !.level_names = extract_level_names(Some(run.tree)),
                    !.error_message = None]

\* whether the run ends in the Ok(data) arm
Loads(run) == run.status = "success" /\ run.temp = "json"

\* input.rs, render_top_panel: Open was pressed
OpenPressed ==
    /\ editor' = [editor EXCEPT !.show_open_dialog = TRUE]
    /\ op' = [made |-> TRUE, name |-> "open", ok |-> TRUE, wrote |-> None]
    /\ UNCHANGED <<world, xnb_ret>>
    /\ UNCHANGED <<tileVars, atlasVars>>

\* a frame of show_open_dialog in which the text of the path field was
\* changed to `path`, or `path` was picked with Browse
DialogPath(path) ==
    /\ editor.show_open_dialog
    /\ editor' = [editor EXCEPT !.bin_path = Some(path)]
    /\ op' = [made |-> TRUE, name |-> "path", ok |-> TRUE, wrote |-> None]
    /\ UNCHANGED <<world, xnb_ret>>
    /\ UNCHANGED <<tileVars, atlasVars>>

\* a frame of show_open_dialog in which Cancel was clicked
DialogCancel ==
    /\ editor.show_open_dialog
    /\ editor' = [editor EXCEPT !.show_open_dialog = FALSE]
    /\ op' = [made |-> TRUE, name |-> "cancel", ok |-> TRUE, wrote |-> None]
    /\ UNCHANGED <<world, xnb_ret>>
    /\ UNCHANGED <<tileVars, atlasVars>>

\* a frame of show_open_dialog in which Open was clicked: load_map with the
\* path of the field, if there is one
DialogOpen ==
    /\ editor.show_open_dialog
    /\ IF editor.bin_path.some
       THEN \E run \in Bin2JsonRuns(world.bins, editor.bin_path.val) :
               /\ editor' = [load_map(editor, editor.bin_path.val, run)
                                EXCEPT !.show_open_dialog = FALSE]
               /\ op' = [made |-> TRUE, name |-> "load_map", ok |-> Loads(run),
                         wrote |-> None]
               /\ world' = IF Loads(run) THEN [world EXCEPT !.origin = editor.bin_path]
                           ELSE world
       ELSE /\ editor' = [editor EXCEPT !.show_open_dialog = FALSE]
            /\ op' = [made |-> TRUE, name |-> "cancel", ok |-> TRUE, wrote |-> None]
            /\ UNCHANGED world
    /\ UNCHANGED xnb_ret
    /\ UNCHANGED <<tileVars, atlasVars>>

\* the View menu's Show All Rooms checkbox
ToggleAllRooms ==
    /\ editor' = [editor EXCEPT !.show_all_rooms = ~@]
    /\ op' = [made |-> TRUE, name |-> "view", ok |-> TRUE, wrote |-> None]
    /\ UNCHANGED <<world, xnb_ret>>
    /\ UNCHANGED <<tileVars, atlasVars>>

\* the room selector: the i-th label (0-based) was clicked
SelectRoom(i) ==
    /\ ~editor.show_all_rooms
    /\ i < Len(editor.level_names)
    /\ editor' = [editor EXCEPT !.current_level_index = i]
    /\ op' = [made |-> TRUE, name |-> "select", ok |-> TRUE, wrote |-> None]
    /\ UNCHANGED <<world, xnb_ret>>
    /\ UNCHANGED <<tileVars, atlasVars>>

\* save_map: the tree goes to temp_json_path and `cairn json2bin` makes
\* bin_path of it; the write may fail, the converter may fail
SaveMap ==
    /\ \E done \in BOOLEAN :
          LET saved == /\ done /\ editor.map_data.some /\ editor.bin_path.some
                       /\ editor.temp_json_path.some
          IN  /\ world' = IF saved
                          THEN [world EXCEPT !.bins = MapPut(@, editor.bin_path.val,
                                                             editor.map_data.val)]
                          ELSE world
              /\ op' = [made |-> TRUE, name |-> "save_map", ok |-> saved,
                        wrote |-> IF saved THEN editor.bin_path ELSE None]
    /\ UNCHANGED <<editor, xnb_ret>>
    /\ UNCHANGED <<tileVars, atlasVars>>

\* save_map_as: the file dialog returns `choice`; the paths are taken over
\* only when the converter succeeded
SaveMapAs(choice) ==
    /\ \E done \in BOOLEAN :
          LET saved == done /\ editor.map_data.some /\ choice.some
          IN  /\ world' = IF saved
                          THEN [bins |-> MapPut(world.bins, choice.val, editor.map_data.val),
                                origin |-> choice]
                          ELSE world
              /\ editor' = IF saved
                           THEN [editor EXCEPT !.bin_path = choice,
                                               !.temp_json_path =
                                                   Some(get_temp_json_path(choice.val))]
                           ELSE editor
              /\ op' = [made |-> TRUE, name |-> "save_map_as", ok |-> saved,
                        wrote |-> IF saved THEN choice ELSE None]
    /\ UNCHANGED xnb_ret
    /\ UNCHANGED <<tileVars, atlasVars>>

InitEditor ==
    /\ TilesIdle
    /\ AtlasUnused
    /\ EditorNew
    /\ world = [bins |-> MapFiles, origin |-> None]
    /\ xnb_ret = NoCall

NextEditor ==
    \/ OpenPressed
    \/ \E path \in DialogPaths : DialogPath(path)
    \/ DialogCancel
    \/ DialogOpen
    \/ ToggleAllRooms
    \/ \E i \in 0..1 : SelectRoom(i)
    \/ SaveMap
    \/ \E choice \in {None} \cup {Some(path) : path \in SaveAsPaths} : SaveMapAs(choice)

SpecEditor == InitEditor /\ [][NextEditor]_vars

\* C22: a load_map that fails (the converter cannot be run or exits with a
\* failure, the temporary JSON cannot be opened or parsed) leaves map_data,
\* level_names, bin_path and temp_json_path as they were and sets
\* error_message; map_data is only ever replaced by the whole tree of the
\* file, by a load that succeeded.
C22_FailedLoadKeepsMap ==
    [][/\ (/\ editor.show_open_dialog /\ op'.name = "load_map" /\ ~op'.ok)
          => /\ editor'.map_data = editor.map_data
             /\ editor'.level_names = editor.level_names
             /\ editor'.bin_path = editor.bin_path
             /\ editor'.temp_json_path = editor.temp_json_path
             /\ editor'.current_level_index = editor.current_level_index
             /\ editor'.error_message.some
       /\ editor'.map_data # editor.map_data
          => /\ op'.name = "load_map" /\ op'.ok
             /\ editor.bin_path.val \in DOMAIN world.bins
             /\ editor'.map_data = Some(world.bins[editor.bin_path.val])]_vars

\* a load failed after another file had been loaded
C22_Witness ==
    /\ op.made /\ op.name = "load_map" /\ ~op.ok
    /\ editor.map_data.some
    /\ editor.error_message.some
    /\ editor.temp_json_path # Some(get_temp_json_path(editor.bin_path.val))

\* C25: whenever a map is loaded, current_level_index is less than the
\* number of nodes of the levels container, whatever maps were loaded and
\* rooms selected before.
C25_IndexInRange ==
    editor.map_data.some
    => /\ LevelsContainer(editor.map_data).some
       /\ editor.current_level_index < Len(LevelsContainer(editor.map_data).val)

\* the one-level map was loaded while the second room of the two-level map
\* was selected: there is no current level
C25_StaleIndex ==
    /\ op.made /\ op.name = "load_map" /\ op.ok
    /\ editor.map_data = Some(SmallMap)
    /\ editor.current_level_index = 1
    /\ get_current_level(editor) = None

\* C30: bin_path is the path of the last successful load_map or
\* save_map_as, and the file save_map writes is the file the current tree
\* was loaded from or last saved as; a path typed in the Open dialog that
\* was then cancelled, or a load that failed, does not redirect Save.
C30_SaveGoesToOrigin ==
    /\ editor.bin_path = world.origin
    /\ (op.made /\ op.name = "save_map" /\ op.wrote.some) => op.wrote = world.origin

\* Save wrote the two-level map loaded from maps/plain over maps/small
C30_SaveRedirected ==
    /\ op.made /\ op.name = "save_map" /\ op.wrote = Some(BinPath("small"))
    /\ world.origin = Some(BinPath("plain"))
    /\ world.bins[BinPath("small")] = PlainMap
    /\ editor.temp_json_path = Some(get_temp_json_path(BinPath("plain")))

----------------------------------------------------------------------------
(* src/src/app/mod.rs: update_solids_data and screen_to_map                *)

\* the children of a level after the loop of update_solids_data: the first
\* child named "solids" gets the new innerText
UpdatedChildren(children, new_solids) ==
    IF FirstSolids(children) = 0 THEN children
    ELSE [children EXCEPT ![FirstSolids(children)] =
              JObj(MapPut(@.v, "innerText", JStr(new_solids)))]

\* the level after `level["__children"].as_array_mut()` and the loop
UpdatedLevel(level, new_solids) ==
    IF Index(level, "__children").t = "arr"
    THEN JObj(MapPut(level.v, "__children",
                     JArr(UpdatedChildren(level.v["__children"].v, new_solids))))
    ELSE IndexMutInserted(level, "__children")

\* the first child of the root after
\* `map["__children"][0]["__children"].as_array_mut()` and what follows
UpdatedFirst(first, index, new_solids) ==
    IF Index(first, "__children").t # "arr" THEN IndexMutInserted(first, "__children")
    ELSE IF index >= Len(first.v["__children"].v) THEN first
    ELSE JObj(MapPut(first.v, "__children",
                     JArr([first.v["__children"].v EXCEPT ![index + 1] =
                               UpdatedLevel(@, new_solids)])))

\* whether update_solids_data panics: the place expressions index a value
\* that is no object, or take [0] of something that is no array or is empty
UpdatePanics(map, index) ==
    \/ IndexMutPanics(map)
    \/ Index(map, "__children").t # "arr"
    \/ Len(Index(map, "__children").v) = 0
    \/ IndexMutPanics(Index(map, "__children").v[1])
    \/ LET levels == Index(Index(map, "__children").v[1], "__children")
       IN  /\ levels.t = "arr"
           /\ index < Len(levels.v)
           /\ IndexMutPanics(levels.v[index + 1])

\* update_solids_data(new_solids) on a tree it does not panic on: the tree
\* after
update_solids_data(map, index, new_solids) ==
    JObj(MapPut(map.v, "__children",
                JArr([map.v["__children"].v EXCEPT ![1] =
                          UpdatedFirst(@, index, new_solids)])))

TILE_SIZE == 20

\* screen_to_map: floor((pos + camera_pos) / (TILE_SIZE * zoom_level))
screen_to_map(ed, pos) ==
    <<(pos[1] + ed.camera_pos[1]) \div (TILE_SIZE * ed.zoom_level),
      (pos[2] + ed.camera_pos[2]) \div (TILE_SIZE * ed.zoom_level)>>

----------------------------------------------------------------------------
(* src/src/map/editor.rs: placing and removing blocks.  A result is        *)
(* [panic, editor, wrote]: whether the handler panicked, the editor after  *)
(* it, and the text it called update_solids_data with, if it did.          *)

NL == "\n"

\* the UTF-8 length of a char: the rows of this model are ASCII but for
\* e-acute, which takes two bytes
Utf8Len(c) == IF c = "é" THEN 2 ELSE 1

\* String::len: the length in bytes
RECURSIVE ByteLen(_)
ByteLen(row) == IF row = <<>> THEN 0 ELSE Utf8Len(Head(row)) + ByteLen(Tail(row))

\* the 1-based index of the char that starts at byte offset n, 0 if n is no
\* char boundary inside the row
CharAtByte(row, n) ==
    LET starts == {k \in 1..Len(row) : ByteLen(SubSeq(row, 1, k - 1)) = n}
    IN  IF starts = {} THEN 0 ELSE CHOOSE k \in starts : TRUE

\* whether String::replace_range(n..n + 1, _) panics: an end of the range is
\* past the end of the row or inside a char
ReplaceRangePanics(row, n) ==
    \/ CharAtByte(row, n) = 0
    \/ Utf8Len(row[CharAtByte(row, n)]) # 1

replace_range(row, n, c) == [row EXCEPT ![CharAtByte(row, n)] = c]

\* `rows.join("\n")`
RECURSIVE JoinRows(_)
JoinRows(rows) ==
    IF rows = <<>> THEN <<>>
    ELSE IF Len(rows) = 1 THEN rows[1]
    ELSE rows[1] \o <<NL>> \o JoinRows(Tail(rows))

\* `while rows.len() <= y { rows.push(String::new()) }`
PadRows(rows, y) ==
    IF Len(rows) > y THEN rows ELSE rows \o [i \in 1..(y + 1 - Len(rows)) |-> <<>>]

\* `while row.len() <= x { row.push('0') }`, len in bytes
PadRow(row, x) ==
    IF ByteLen(row) > x THEN row ELSE row \o [i \in 1..(x + 1 - ByteLen(row)) |-> "0"]

\* `(v / 8.0) as i32` for a whole number v: the quotient rounded toward 0
PixelsToTiles(v) == IF v >= 0 THEN v \div 8 ELSE -((-v) \div 8)

\* offsetX and offsetY of the first child named "solids", 0 where missing
SolidsOffset(level, key) ==
    IF ~level.some THEN 0
    ELSE IF Index(level.val, "__children").t # "arr" THEN 0
    ELSE IF FirstSolids(level.val.v["__children"].v) = 0 THEN 0
    ELSE IF as_i64(Index(level.val.v["__children"].v[
                             FirstSolids(level.val.v["__children"].v)], key)).some
         THEN Index(level.val.v["__children"].v[
                        FirstSolids(level.val.v["__children"].v)], key).v
    ELSE 0

\* the boundary test of place_block_in_current_room: made only for a level
\* with numeric x, y, width and height
OutsideRoom(level, tile) ==
    /\ level.some
    /\ as_f64(Index(level.val, "x")).some /\ as_f64(Index(level.val, "y")).some
    /\ as_f64(Index(level.val, "width")).some /\ as_f64(Index(level.val, "height")).some
    /\ \/ tile[1] < PixelsToTiles(level.val.v["x"].v)
       \/ tile[2] < PixelsToTiles(level.val.v["y"].v)
       \/ tile[1] >= PixelsToTiles(level.val.v["x"].v) + PixelsToTiles(level.val.v["width"].v)
       \/ tile[2] >= PixelsToTiles(level.val.v["y"].v) + PixelsToTiles(level.val.v["height"].v)

\* the cell a tile stands for: the tile less the offsets of the solids
AdjustedCell(ed, tile) ==
    <<tile[1] - SolidsOffset(get_current_level(ed), "offsetX"),
      tile[2] - SolidsOffset(get_current_level(ed), "offsetY")>>

Unchanged(ed) == [panic |-> FALSE, editor |-> ed, wrote |-> None]
Panicked(ed) == [panic |-> TRUE, editor |-> ed, wrote |-> None]

\* the end of both handlers: rows[y] = new_row, join, update_solids_data
WriteRows(ed, rows) ==
    IF UpdatePanics(ed.map_data.val, ed.current_level_index)
    THEN [panic |-> TRUE, editor |-> ed, wrote |-> Some(JoinRows(rows))]
    ELSE [panic |-> FALSE,
          editor |-> [ed EXCEPT !.map_data =
                         Some(update_solids_data(ed.map_data.val, ed.current_level_index,
                                                 JoinRows(rows)))],
          wrote |-> Some(JoinRows(rows))]

\* place_block_in_current_room from the padded rows on; `chars().nth(x)` is
\* None when the row holds fewer chars than x + 1
PlaceInRows(ed, rows, cell) ==
    IF Len(rows[cell[2] + 1]) <= cell[1] THEN Unchanged(ed)
    ELSE IF ReplaceRangePanics(rows[cell[2] + 1], cell[1]) THEN Panicked(ed)
    ELSE WriteRows(ed, [rows EXCEPT ![cell[2] + 1] = replace_range(@, cell[1], "9")])

PlaceAtCell(ed, cell) ==
    IF cell[1] < 0 \/ cell[2] < 0 THEN Unchanged(ed)
    ELSE PlaceInRows(ed,
                     [PadRows(Split(get_solids_data(ed).val, NL), cell[2])
                         EXCEPT ![cell[2] + 1] = PadRow(@, cell[1])],
                     cell)

place_block_in_current_room(ed, pos) ==
    IF OutsideRoom(get_current_level(ed), screen_to_map(ed, pos)) THEN Unchanged(ed)
    ELSE IF ~get_solids_data(ed).some THEN Unchanged(ed)
    ELSE PlaceAtCell(ed, AdjustedCell(ed, screen_to_map(ed, pos)))

\* remove_block_in_current_room from the split rows on
RemoveInRows(ed, rows, cell) ==
    IF cell[1] < 0 \/ cell[2] < 0 THEN Unchanged(ed)
    ELSE IF cell[2] >= Len(rows) THEN Unchanged(ed)
    ELSE IF cell[1] >= ByteLen(rows[cell[2] + 1]) THEN Unchanged(ed)
    ELSE IF ReplaceRangePanics(rows[cell[2] + 1], cell[1]) THEN Panicked(ed)
    ELSE WriteRows(ed, [rows EXCEPT ![cell[2] + 1] = replace_range(@, cell[1], "0")])

remove_block_in_current_room(ed, pos) ==
    IF ~get_solids_data(ed).some THEN Unchanged(ed)
    ELSE RemoveInRows(ed, Split(get_solids_data(ed).val, NL),
                      AdjustedCell(ed, screen_to_map(ed, pos)))

\* value[i], the Index impl for usize: Null for a value that is no array
\* and for an index past its end
IndexAt(value, i) ==
    IF value.t = "arr" /\ i < Len(value.v) THEN value.v[i + 1] ELSE JNull

\* `level.get(key).and_then(|w| w.as_f64()).unwrap_or(default)`
NumberOr(level, key, default) ==
    IF as_f64(Index(level, key)).some THEN Index(level, key).v ELSE default

\* the levels the all-rooms branch of place_block and remove_block goes
\* through: the children of the first child of the root
FirstChildLevels(ed) ==
    IF ~ed.map_data.some THEN <<>>
    ELSE IF ~as_array(Index(IndexAt(Index(ed.map_data.val, "__children"), 0),
                            "__children")).some THEN <<>>
    ELSE Index(IndexAt(Index(ed.map_data.val, "__children"), 0), "__children").v

\* the hit test of the all-rooms branch: the room's pixel position and size
\* are multiplied by the scaled tile size
RoomHit(ed, level, pos) ==
    /\ Index(level, "__name") = JStr(Str_level)
    /\ as_f64(Index(level, "x")).some /\ as_f64(Index(level, "y")).some
    /\ pos[1] >= level.v["x"].v * TILE_SIZE * ed.zoom_level - ed.camera_pos[1]
    /\ pos[1] < (level.v["x"].v + NumberOr(level, "width", 320)) * TILE_SIZE * ed.zoom_level
                - ed.camera_pos[1]
    /\ pos[2] >= level.v["y"].v * TILE_SIZE * ed.zoom_level - ed.camera_pos[2]
    /\ pos[2] < (level.v["y"].v + NumberOr(level, "height", 184)) * TILE_SIZE * ed.zoom_level
                - ed.camera_pos[2]

\* the 0-based index of the first level hit, -1 if none is
FirstRoomHit(ed, levels, pos) ==
    LET hit == {i \in 1..Len(levels) : RoomHit(ed, levels[i], pos)}
    IN  IF hit = {} THEN -1 ELSE (CHOOSE i \in hit : \A j \in hit : i <= j) - 1

\* place_block: in all-rooms mode the room hit becomes the current one and
\* the position is moved by the room's tile position (room_x / 8 tiles; the
\* rooms of this model lie at multiples of 8 pixels)
PlaceInRoomHit(ed, level, i, pos) ==
    place_block_in_current_room(
        [ed EXCEPT !.current_level_index = i],
        <<pos[1] + ed.camera_pos[1] - (level.v["x"].v \div 8) * TILE_SIZE * ed.zoom_level,
          pos[2] + ed.camera_pos[2] - (level.v["y"].v \div 8) * TILE_SIZE * ed.zoom_level>>)

place_block(ed, pos) ==
    IF ~ed.show_all_rooms THEN place_block_in_current_room(ed, pos)
    ELSE IF FirstRoomHit(ed, FirstChildLevels(ed), pos) < 0 THEN Unchanged(ed)
    ELSE PlaceInRoomHit(ed, FirstChildLevels(ed)[FirstRoomHit(ed, FirstChildLevels(ed), pos) + 1],
                        FirstRoomHit(ed, FirstChildLevels(ed), pos), pos)

\* remove_block: the same, the position moved by room_x tiles
RemoveInRoomHit(ed, level, i, pos) ==
    remove_block_in_current_room(
        [ed EXCEPT !.current_level_index = i],
        <<pos[1] + ed.camera_pos[1] - level.v["x"].v * TILE_SIZE * ed.zoom_level,
          pos[2] + ed.camera_pos[2] - level.v["y"].v * TILE_SIZE * ed.zoom_level>>)

remove_block(ed, pos) ==
    IF ~ed.show_all_rooms THEN remove_block_in_current_room(ed, pos)
    ELSE IF FirstRoomHit(ed, FirstChildLevels(ed), pos) < 0 THEN Unchanged(ed)
    ELSE RemoveInRoomHit(ed, FirstChildLevels(ed)[FirstRoomHit(ed, FirstChildLevels(ed), pos) + 1],
                         FirstRoomHit(ed, FirstChildLevels(ed), pos), pos)

----------------------------------------------------------------------------
(* src/src/ui/render.rs: what is drawn of the solids.  Screen positions    *)
(* are whole pixels; the view is wider than the maps of this model and the *)
(* culling margin (100 pixels at zoom 1) is wider than the camera moves,   *)
(* so that no tile is culled.                                              *)

\* str::lines: the pieces between line feeds, without a last empty piece
\* and without a carriage return at the end of a piece
Lines(text) ==
    LET pieces == Split(text, NL)
        kept == IF pieces[Len(pieces)] = <<>> THEN SubSeq(pieces, 1, Len(pieces) - 1)
                ELSE pieces
    IN  [i \in 1..Len(kept) |->
            IF kept[i] # <<>> /\ kept[i][Len(kept[i])] = "\r"
            THEN SubSeq(kept[i], 1, Len(kept[i]) - 1) ELSE kept[i]]

\* the solids rows extract_level_data takes from a level
LevelRows(level) ==
    IF ~SolidsOf(Some(level)).some THEN <<>> ELSE Lines(SolidsOf(Some(level)).val)

\* extract_level_data: None without a numeric x and y
extract_level_data(level) ==
    IF ~(as_f64(Index(level, "x")).some /\ as_f64(Index(level, "y")).some) THEN None
    ELSE Some([x |-> level.v["x"].v, y |-> level.v["y"].v,
               solids |-> LevelRows(level),
               offset_x |-> SolidsOffset(Some(level), "offsetX"),
               offset_y |-> SolidsOffset(Some(level), "offsetY")])

\* the upper left corner of the rect render_tile and render_tile_to_shapes
\* draw cell (x, y) of a level at
TileRectMin(ed, level_data, x, y) ==
    <<((level_data.x \div 8) + x + level_data.offset_x) * TILE_SIZE * ed.zoom_level
          - ed.camera_pos[1],
      ((level_data.y \div 8) + y + level_data.offset_y) * TILE_SIZE * ed.zoom_level
          - ed.camera_pos[2]>>

\* get_tile_color
get_tile_color(tile_char) ==
    IF tile_char \in {"1", "2", "3", "4"} THEN tile_char ELSE "SOLID_TILE_COLOR"

\* is_internal of render_tile_to_shapes, on the rows of the current level:
\* no neighbour inside those rows is a non-solid tile
IsInternal(rows, x, y) ==
    \A dx \in {-1, 0, 1}, dy \in {-1, 0, 1} :
        \/ dx = 0 /\ dy = 0
        \/ y + dy < 0 \/ x + dx < 0 \/ y + dy >= Len(rows)
        \/ x + dx >= Len(rows[y + dy + 1])
        \/ is_solid_tile(rows[y + dy + 1][x + dx + 1])

\* collect_levels: every node named "level", the node first, then its
\* children in order
RECURSIVE collect_levels(_)
RECURSIVE CollectChildren(_)
collect_levels(node) ==
    (IF Index(node, "__name") = JStr(Str_level) THEN <<node>> ELSE <<>>)
    \o (IF Index(node, "__children").t = "arr"
        THEN CollectChildren(node.v["__children"].v) ELSE <<>>)

CollectChildren(children) ==
    IF children = <<>> THEN <<>>
    ELSE collect_levels(Head(children)) \o CollectChildren(Tail(children))

\* the filled rects render_tile_to_shapes pushes for one level, as
\* [min, color]; `current` is the data of the current level (None if there
\* is none), which the function tests the cell against.  The one-pixel
\* border rects are left out
LevelShapes(ed, level_data, current) ==
    UNION {{[min |-> TileRectMin(ed, level_data, x, y),
             color |-> IF current.some /\ IsInternal(current.val.solids, x, y)
                       THEN "INFILL_COLOR"
                       ELSE get_tile_color(level_data.solids[y + 1][x + 1])] :
               x \in {c \in 0..(Len(level_data.solids[y + 1]) - 1) :
                         current.some => /\ y < Len(current.val.solids)
                                         /\ c < Len(current.val.solids[y + 1])}} :
             y \in 0..(Len(level_data.solids) - 1)}

\* the data of the level get_current_level returns
CurrentLevelData(ed) ==
    IF ~get_current_level(ed).some THEN None
    ELSE extract_level_data(get_current_level(ed).val)

\* the shapes render_all_rooms computes when static_dirty is set
StaticShapes(ed) ==
    UNION {IF extract_level_data(level).some
           THEN LevelShapes(ed, extract_level_data(level).val, CurrentLevelData(ed))
           ELSE {} :
              level \in {collect_levels(ed.map_data.val)[i] :
                            i \in 1..Len(collect_levels(ed.map_data.val))}}

\* a frame of render_central_panel: nothing is painted while an error is
\* shown; render_all_rooms recomputes the shapes when static_dirty is set
\* and paints static_shapes; render_current_room keeps nothing
render_central_panel(ed) ==
    IF ed.error_message.some \/ ~ed.show_all_rooms THEN ed
    ELSE IF ed.static_dirty
    THEN [ed EXCEPT !.static_shapes =
                        Some(IF ed.map_data.some THEN StaticShapes(ed) ELSE {}),
                    !.static_dirty = FALSE]
    ELSE ed

----------------------------------------------------------------------------
(* Editing a loaded map *)

\* a level of 16 x 16 pixels whose solids hold one row and are shifted by
\* one tile; the levels container behind a Style element without children,
\* and behind a Filler element with a rect child; a row with a two-byte char
OffsetMap ==
    MapRoot(<<Element(Str_levels,
                      <<JObj(MapPut(Level(<<"c">>, 0, 0, <<Solids(Row00, 1, 0)>>).v,
                                    "height", JNum(16)))>>)>>)

StyleFirstMap ==
    MapRoot(<<Leaf(Str_Style),
              Element(Str_levels, <<Level(<<"a">>, 0, 0, <<Solids(Row01, 0, 0)>>)>>)>>)

FillerFirstMap ==
    MapRoot(<<Element(Str_Filler, <<Leaf(<<"r", "e", "c", "t">>)>>),
              Element(Str_levels, <<Level(<<"a">>, 0, 0, <<Solids(Row01, 0, 0)>>)>>)>>)

AccentMap ==
    MapRoot(<<Element(Str_levels, <<Level(<<"e">>, 0, 0, <<Solids(<<"é", "1">>, 0, 0)>>)>>)>>)

EditMaps == {PlainMap, OddMap, OffsetMap, StyleFirstMap, FillerFirstMap, AccentMap}

\* the editor after load_map read `tree` from maps/edit
LoadedEditor(tree) ==
    load_map(CelesteMapEditor_default, BinPath("edit"),
             [status |-> "success", temp |-> "json", tree |-> tree])

\* the hover positions of a click, in pixels: the middles of the tiles
\* (0..3, 0..1) of an unmoved view
MaxTileX == 3
MaxTileY == 1

ClickPositions == {<<10 + 20 * i, 10 + 20 * j>> : i \in 0..MaxTileX, j \in 0..MaxTileY}

\* the camera moves by whole tiles, up to MaxPan
MaxPan == 20

\* the process ended in a panic of a block handler
Crashed == op.made /\ op.name \in {"place", "remove"} /\ ~op.ok

\* handle_input: the place_block binding was pressed with the pointer at pos
PlaceBlock(pos) ==
    /\ ~Crashed
    /\ \E r \in {place_block(editor, pos)} :
          /\ editor' = r.editor
          /\ op' = [made |-> TRUE, name |-> "place", ok |-> ~r.panic, pos |-> pos,
                    wrote |-> r.wrote]
    /\ UNCHANGED <<world, xnb_ret>>
    /\ UNCHANGED <<tileVars, atlasVars>>

\* handle_input: the remove_block binding was pressed with the pointer at pos
RemoveBlock(pos) ==
    /\ ~Crashed
    /\ \E r \in {remove_block(editor, pos)} :
          /\ editor' = r.editor
          /\ op' = [made |-> TRUE, name |-> "remove", ok |-> ~r.panic, pos |-> pos,
                    wrote |-> r.wrote]
    /\ UNCHANGED <<world, xnb_ret>>
    /\ UNCHANGED <<tileVars, atlasVars>>

\* handle_input: a drag with the pan binding down moved the pointer by delta
Pan(delta) ==
    /\ ~Crashed
    /\ editor.camera_pos[1] - delta \in 0..MaxPan
    /\ editor' = [editor EXCEPT !.camera_pos = <<@[1] - delta, @[2]>>,
                                !.static_dirty = TRUE]
    /\ op' = [made |-> TRUE, name |-> "pan", ok |-> TRUE, pos |-> <<0, 0>>]
    /\ UNCHANGED <<world, xnb_ret>>
    /\ UNCHANGED <<tileVars, atlasVars>>

\* the room selector and the Show All Rooms checkbox, in this specification
PickRoom(i) ==
    /\ ~Crashed
    /\ ~editor.show_all_rooms
    /\ i < Len(editor.level_names)
    /\ editor' = [editor EXCEPT !.current_level_index = i]
    /\ op' = [made |-> TRUE, name |-> "select", ok |-> TRUE, pos |-> <<0, 0>>]
    /\ UNCHANGED <<world, xnb_ret>>
    /\ UNCHANGED <<tileVars, atlasVars>>

ShowAllRooms ==
    /\ ~Crashed
    /\ editor' = [editor EXCEPT !.show_all_rooms = ~@]
    /\ op' = [made |-> TRUE, name |-> "view", ok |-> TRUE, pos |-> <<0, 0>>]
    /\ UNCHANGED <<world, xnb_ret>>
    /\ UNCHANGED <<tileVars, atlasVars>>

\* a frame is painted
Render ==
    /\ ~Crashed
    /\ editor' = render_central_panel(editor)
    /\ op' = [made |-> TRUE, name |-> "render", ok |-> TRUE, pos |-> <<0, 0>>]
    /\ UNCHANGED <<world, xnb_ret>>
    /\ UNCHANGED <<tileVars, atlasVars>>

InitEdit ==
    /\ TilesIdle
    /\ AtlasUnused
    /\ editor \in {LoadedEditor(tree) : tree \in EditMaps}
    /\ op = NoCall
    /\ world = [bins |-> EmptyMap, origin |-> Some(BinPath("edit"))]
    /\ xnb_ret = NoCall

NextEdit ==
    \/ \E pos \in ClickPositions : PlaceBlock(pos)
    \/ \E pos \in ClickPositions : RemoveBlock(pos)
    \/ \E delta \in {-20, 20} : Pan(delta)
    \/ \E i \in 0..1 : PickRoom(i)
    \/ ShowAllRooms

SpecEdit == InitEdit /\ [][NextEdit]_vars

\* the all-rooms view of a one-level map, painted frame by frame, while
\* blocks are placed and removed, the view is moved and maps are opened
InitPaint ==
    /\ TilesIdle
    /\ AtlasUnused
    /\ editor = LoadedEditor(SmallMap)
    /\ op = NoCall
    /\ world = [bins |-> BinPath("edit") :> SmallMap,
                origin |-> Some(BinPath("edit"))]
    /\ xnb_ret = NoCall

NextPaint ==
    \/ \E pos \in ClickPositions : PlaceBlock(pos)
    \/ \E pos \in ClickPositions : RemoveBlock(pos)
    \/ \E delta \in {-20, 20} : Pan(delta)
    \/ Render
    \/ OpenPressed
    \/ DialogOpen

SpecPaint == InitPaint /\ [][NextPaint]_vars

----------------------------------------------------------------------------
(* Claims about editing a loaded map *)

\* the `name` of the node get_current_level returns for index i, None if it
\* returns none or the node has no string name
NameOfLevelAt(ed, i) ==
    IF ~get_current_level([ed EXCEPT !.current_level_index = i]).some THEN None
    ELSE as_str(Index(get_current_level([ed EXCEPT !.current_level_index = i]).val, "name"))

\* C27: for every index i of level_names, level_names[i] is the name of the
\* i-th node of the levels container, the node get_current_level returns for
\* current_level_index = i, so that the room picked by name is the room the
\* handlers edit
C27_NamesMatchLevels ==
    editor.map_data.some =>
        \A i \in 0..(Len(editor.level_names) - 1) :
            NameOfLevelAt(editor, i) = Some(editor.level_names[i + 1])

\* the room selector shows the one name "d", it was picked, and the block
\* placed went into the unnamed level while the level d stayed as loaded
C27_OtherRoomEdited ==
    /\ op.made /\ op.name = "place" /\ op.ok
    /\ ~editor.show_all_rooms
    /\ editor.level_names = <<<<"d">>>>
    /\ editor.current_level_index = 0
    /\ NameOfLevelAt(editor, 0) = None
    /\ get_solids_data(editor) = Some(<<"9", "0">>)
    /\ SolidsOf(Some(LevelsContainer(editor.map_data).val[3])) = Some(Row00)

\* a block handler has returned after calling update_solids_data
Wrote == op.made /\ op.name \in {"place", "remove"} /\ op.ok /\ op.wrote.some

\* C24: update_solids_data writes the solids node get_solids_data reads for
\* current_level_index: when the current level has a solids child, after
\* update_solids_data(s) get_solids_data returns s, also when the levels
\* container is not the first child of the root
C24_UpdateThenGet == Wrote => get_solids_data(editor) = op.wrote

\* the levels container is the second child of the root; the handler wrote
\* "91", the current level still reads "01" and the first child of the root,
\* a Style element without children, was given a null `__children`
C24_WroteElsewhere ==
    /\ Wrote /\ op.name = "place" /\ op.wrote = Some(<<"9", "1">>)
    /\ get_solids_data(editor) = Some(Row01)
    /\ Index(editor.map_data.val, "__children").v[1]
           = JObj("__name" :> JStr(Str_Style) @@ "__children" :> JNull)

\* where the levels container is the first child of the root, the text
\* written is the text read
C24_LevelsFirst ==
    (Wrote /\ Index(Index(editor.map_data.val, "__children").v[1], "__name") = JStr(Str_levels))
        => get_solids_data(editor) = op.wrote

\* the solids grid of the current level: its rows, each a sequence of chars
Grid(ed) == Split(get_solids_data(ed).val, NL)

\* place_block_in_current_room goes on to the cell for the pointer at pos:
\* there is a solids text, the tile is not outside the room and the cell is
\* not negative
Accepted(ed, pos) ==
    /\ get_solids_data(ed).some
    /\ ~OutsideRoom(get_current_level(ed), screen_to_map(ed, pos))
    /\ AdjustedCell(ed, screen_to_map(ed, pos))[1] >= 0
    /\ AdjustedCell(ed, screen_to_map(ed, pos))[2] >= 0

\* grid `new` is grid `old` with cell (ax, ay) set to c: every cell of old
\* keeps its char and place, no row is shorter, every other new cell is '0'
OneCellSet(old, new, ax, ay, c) ==
    /\ Len(new) > ay /\ Len(new) >= Len(old)
    /\ Len(new[ay + 1]) > ax /\ new[ay + 1][ax + 1] = c
    /\ \A y \in 1..Len(old) : Len(new[y]) >= Len(old[y])
    /\ \A y \in 1..Len(new) : \A x \in 1..Len(new[y]) :
           \/ x = ax + 1 /\ y = ay + 1
           \/ new[y][x] = (IF y <= Len(old) /\ x <= Len(old[y]) THEN old[y][x] ELSE "0")

\* the nodes of the levels container other than the current level are the
\* same in both editors
OtherLevelsKept(ed, after) ==
    /\ LevelsContainer(after.map_data).some
    /\ Len(LevelsContainer(after.map_data).val) = Len(LevelsContainer(ed.map_data).val)
    /\ \A j \in 1..Len(LevelsContainer(ed.map_data).val) :
           j # ed.current_level_index + 1
               => LevelsContainer(after.map_data).val[j] = LevelsContainer(ed.map_data).val[j]

\* a step of place_block_in_current_room at an accepted cell
PlaceAccepted ==
    /\ ~editor.show_all_rooms
    /\ op'.made /\ op'.name = "place"
    /\ Accepted(editor, op'.pos)

\* C28: place_block_in_current_room at an accepted cell (ax, ay) sets that
\* cell of the current level's solids grid to '9' and changes nothing else:
\* the cells there were keep char and place, added cells are '0', no row
\* gets shorter and no other level is modified
C28_PlaceSetsOneCell ==
    [][PlaceAccepted =>
          /\ op'.ok
          /\ get_solids_data(editor').some
          /\ OneCellSet(Grid(editor), Grid(editor'),
                        AdjustedCell(editor, screen_to_map(editor, op'.pos))[1],
                        AdjustedCell(editor, screen_to_map(editor, op'.pos))[2], "9")
          /\ OtherLevelsKept(editor, editor')]_vars

\* the levels container is the first child of the root and the rows of the
\* current level hold one-byte chars only
LevelsFirstAscii(ed) ==
    /\ Index(Index(ed.map_data.val, "__children").v[1], "__name") = JStr(Str_levels)
    /\ get_solids_data(ed).some
    /\ \A y \in 1..Len(Grid(ed)) : ByteLen(Grid(ed)[y]) = Len(Grid(ed)[y])

\* on such maps the accepted cell is set and nothing else changes
C28_LevelsFirstAscii ==
    [][(PlaceAccepted /\ LevelsFirstAscii(editor)) =>
          /\ op'.ok
          /\ OneCellSet(Grid(editor), Grid(editor'),
                        AdjustedCell(editor, screen_to_map(editor, op'.pos))[1],
                        AdjustedCell(editor, screen_to_map(editor, op'.pos))[2], "9")
          /\ OtherLevelsKept(editor, editor')]_vars

\* an accepted placement that left the cell as it was: the write went to the
\* first child of the root, which is not the levels container
C28_CellNotSet ==
    /\ Wrote /\ op.name = "place" /\ ~editor.show_all_rooms
    /\ Index(Index(editor.map_data.val, "__children").v[1], "__name") = JStr(Str_Filler)
    /\ op.wrote = Some(<<"0", "9">>)
    /\ get_solids_data(editor) = Some(Row01)

\* an accepted placement into a row with a two-byte char ended in a panic
C28_PlacePanicked ==
    /\ op.made /\ op.name = "place" /\ ~op.ok
    /\ get_solids_data(editor) = Some(<<"é", "1">>)

\* the cells of the current level's rows whose rect, as render_tile places
\* it, holds the pointer position
CellsDrawnAt(ed, pos) ==
    IF ~CurrentLevelData(ed).some THEN {}
    ELSE {cell \in UNION {{<<x, y>> : x \in 0..(Len(CurrentLevelData(ed).val.solids[y + 1]) - 1)} :
                             y \in 0..(Len(CurrentLevelData(ed).val.solids) - 1)} :
             \A k \in 1..2 :
                 /\ TileRectMin(ed, CurrentLevelData(ed).val, cell[1], cell[2])[k] <= pos[k]
                 /\ pos[k] < TileRectMin(ed, CurrentLevelData(ed).val, cell[1], cell[2])[k]
                                 + TILE_SIZE * ed.zoom_level}

\* a step of a block handler in single-room mode
SingleRoomClick ==
    /\ ~editor.show_all_rooms
    /\ op'.made /\ op'.name \in {"place", "remove"}

\* C29: in single-room mode the click-to-cell mapping of the block handlers
\* is the inverse of the cell-to-screen mapping of render_tile: a click
\* inside the rect cell (x, y) of the current level is drawn at modifies
\* exactly cell (x, y), wherever the room lies and whatever the solids
\* offset is
C29_ClickHitsDrawnCell ==
    [][SingleRoomClick =>
          \A cell \in CellsDrawnAt(editor, op'.pos) :
              /\ op'.ok
              /\ get_solids_data(editor').some
              /\ OneCellSet(Grid(editor), Grid(editor'), cell[1], cell[2],
                            IF op'.name = "place" THEN "9" ELSE "0")]_vars

\* the same for a level at the origin of a map LevelsFirstAscii holds of,
\* clicked inside the room: there the cell drawn under the pointer is the
\* cell modified, with a solids offset as without
C29_RoomAtOrigin ==
    [][(/\ SingleRoomClick
        /\ LevelsFirstAscii(editor)
        /\ CurrentLevelData(editor).some
        /\ CurrentLevelData(editor).val.x = 0 /\ CurrentLevelData(editor).val.y = 0
        /\ ~OutsideRoom(get_current_level(editor), screen_to_map(editor, op'.pos)))
          => \A cell \in CellsDrawnAt(editor, op'.pos) :
                 /\ op'.ok
                 /\ OneCellSet(Grid(editor), Grid(editor'), cell[1], cell[2],
                               IF op'.name = "place" THEN "9" ELSE "0")]_vars

\* level b lies two tiles to the right of the origin: its cell (0, 0) is
\* drawn under the pointer at (50, 10), and the block placed there went to
\* cell (2, 0)
C29_OtherCellHit ==
    /\ Wrote /\ op.name = "place" /\ op.pos = <<50, 10>>
    /\ ~editor.show_all_rooms /\ editor.current_level_index = 1
    /\ editor.camera_pos = <<0, 0>>
    /\ NameOfLevelAt(editor, 1) = Some(<<"b">>)
    /\ get_solids_data(editor) = Some(<<"0", "0", "9">>)
    /\ TileRectMin(editor, CurrentLevelData(editor).val, 0, 0) = <<40, 0>>

----------------------------------------------------------------------------
(* Claims about the painted all-rooms view *)

\* a frame of the all-rooms view has just been painted
Painted ==
    /\ op.made /\ op.name = "render"
    /\ editor.show_all_rooms /\ ~editor.error_message.some

\* C21: after the level tree was loaded or a block handler changed a solids
\* text, the cached shapes are recomputed before they are used again: what
\* a frame paints is what the tree of that moment gives
C21_PaintedFromTree ==
    Painted => editor.static_shapes
                   = Some(IF editor.map_data.some THEN StaticShapes(editor) ELSE {})

\* a frame painted the cell (1, 0) of level c in the colour of tile '1'
\* after place_block had made it '9'
C21_StaleAfterEdit ==
    /\ Painted /\ ~editor.static_dirty
    /\ get_solids_data(editor) = Some(<<"0", "9">>)
    /\ editor.static_shapes.some
    /\ [min |-> <<20 - editor.camera_pos[1], 0>>, color |-> "1"] \in editor.static_shapes.val
    /\ [min |-> <<20 - editor.camera_pos[1], 0>>, color |-> "SOLID_TILE_COLOR"]
           \in StaticShapes(editor)

\* a frame painted the shapes of the edited tree after load_map had read the
\* map from disk again
C21_StaleAfterLoad ==
    /\ Painted /\ ~editor.static_dirty
    /\ editor.map_data = Some(SmallMap)
    /\ editor.static_shapes.some
    /\ [min |-> <<20 - editor.camera_pos[1], 0>>, color |-> "SOLID_TILE_COLOR"]
           \in editor.static_shapes.val
    /\ [min |-> <<20 - editor.camera_pos[1], 0>>, color |-> "1"] \in StaticShapes(editor)

\* the frames painted right after the view was moved show the tree
C21_FreshAfterPan ==
    [][(op.made /\ op.name = "pan" /\ op'.made /\ op'.name = "render"
        /\ ~editor.error_message.some)
          => editor'.static_shapes = Some(StaticShapes(editor'))]_vars

====
